---- MODULE Spec2Model ----
(***************************************************************************)
(* pgrok client (Tunnel Session Core): the tunnel-line state machine, the  *)
(* orchestrator's handling of control-channel output and exit, and the     *)
(* local reverse proxy (HTTP forwarding and the WebSocket relay).          *)
(*                                                                         *)
(* Strings are TLA+ strings; TLC evaluates Len, Head, Tail, SubSeq and \o  *)
(* on them, so startsWith / replace / trim / split are computed character  *)
(* by character as the JavaScript built-ins compute them.                  *)
(***************************************************************************)
EXTENDS Integers, Sequences, FiniteSets, TLC

VARIABLES
    \* ---- parseTunnelMessage applied to a drawn input (pure function) ----
    pLine,          \* the line handed to parseTunnelMessage
    pState,         \* the TunnelState handed to parseTunnelMessage
    pOut,           \* <<>> before the call, <<result>> after it
    \* ---- orchestrator / control-channel process ----
    tunnelState,    \* index.ts: let tunnelState
    panel,          \* the TunnelState last given to session.update
    updates,        \* number of session.update calls made so far
    proc,           \* "running" | "exited": the SSH child process
    exitCode,       \* its exit code once exited
    exitSeen,       \* the process.exited continuation has run
    outPipe,        \* lines written to stdout and not yet read
    errPipe,        \* lines written to stderr and not yet read
    written,        \* number of lines the process has written
    delivered,      \* history: the lines handed to the onLine callback, in order
    events,         \* history: lines and the exit event, in the order handled
    \* ---- local reverse proxy: HTTP ----
    hpc,            \* per request: "idle" | "forwarding" (awaiting fetch) | "done"
    inbound,        \* per request: the inbound request (headers), once received
    forwarded,      \* per request: <<>> or <<the headers handed to fetch()>>
    upstreamResp,   \* per request: <<>> or <<the response fetch() resolved with>>
    response,       \* per request: <<>> or <<the Response returned downstream>>
    records,        \* the HttpRequest records handed to onRequest, in order
    failsBefore,    \* per request: 502 records already emitted when it was received
    listening,      \* the Bun.serve listener is up
    \* ---- local reverse proxy: WebSocket relay ----
    wpc,            \* per connection: "none" | "rejected" | "upgraded" | "open" | "closed"
    wsData,         \* per connection: <<>> or <<ws.data captured at upgrade>>
    wsResp,         \* per connection: <<>> or <<status of the Response to the upgrade>>
    tracked,        \* the keys of the upstreamState map
    ready,          \* per connection: UpstreamWsState.ready
    queue,          \* per connection: UpstreamWsState.queue
    upRS,           \* per connection: the upstream WebSocket's state (see UpStates)
    upReq,          \* per connection: <<>> or <<arguments of new WebSocket(...)>>
    upSent,         \* per connection: the messages handed to upstream.send, in order
    upCloseArgs,    \* per connection: <<>> or <<code, reason>> given to upstream.close
    upEvt,          \* per connection: <<>> or <<code, reason>> of upstream's close event
    downClose,      \* per connection: <<>> or <<code, reason>> given to ws.close
    downPeerClose,  \* per connection: <<>> or <<code, reason>> the downstream peer closed with
    arrived,        \* per connection: number of downstream messages handled
    preOpen,        \* per connection: how many of them arrived before upstream 'open'
    \* ---- index.ts: the life of one run, from the command line to process exit ----
    argv,           \* process.argv.slice(2)
    cfgFile,        \* ~/.pgrok/config: <<>> when absent, <<content>> otherwise
    spc,            \* "start" | "loaded" | "running" | "exited"
    exitStatus,     \* <<>> while the process lives, <<code>> once it has exited
    printed,        \* what the run wrote to stdout / stderr: <<stream, kind>> entries
    session,        \* <<>> or <<[subdomain, localPort]>> once the arguments were accepted
    bound,          \* number of listeners the run has bound so far (probe or proxy)
    spawned,        \* number of control-channel processes the run has spawned so far
    timerOn,        \* the 1 s statistics interval is scheduled
    displayUp,      \* the renderer holds the terminal
    teardown,       \* the teardown steps attempted so far, in order
    probe,          \* <<>> or <<what the operating system answered at the port probe and bind>>
    listenPort,     \* 0 or the port the proxy's Bun.serve listener was bound to
    sshArgv,        \* <<>> or the argument vector the control-channel process was spawned with
    connPanel,      \* <<>> or <<the ConnectionStats last given to connections.update>>
    \* ---- stats.ts: StatsTracker ----
    now,            \* Date.now(), in seconds since the tracker was made
    durations,      \* StatsTracker.durations: [ts, ms] entries
    inFlight,       \* StatsTracker.inFlight
    total,          \* StatsTracker.total
    started,        \* number of requestStart calls made so far
    completions,    \* number of completion-callback calls made so far
    recorded,       \* history: number of recordRequest calls made so far
    history,        \* history: every entry recordRequest has pushed, in order
    snap,           \* <<>> or <<the ConnectionStats last returned by get()>>
    \* ---- tunnel.ts: posixCksum / computeRemotePort, one call step by step ----
    ckIn,           \* the input string
    ckPc,           \* "bytes" | "length" | "done"
    ckPos,          \* number of input bytes processed
    ckLen,          \* the local `len` of the length loop
    ckCrc,          \* the local `crc`
    ckRef,          \* the register of the bit-serial reference CRC run alongside
    ckOut,          \* <<>> or <<the value posixCksum returned>>
    ckPorts,        \* the values computeRemotePort returned for ckIn, call by call
    \* ---- tunnel.ts: readStream on one output stream of the process ----
    rsRest,         \* what the stream has still to give, as a string
    rsRead,         \* history: what has been read from the stream so far
    rsCuts,         \* history: the length of each chunk read, in order
    rsBuffer,       \* the local `buffer`
    rsOut,          \* history: the lines handed to the handler, in order
    rsPc,           \* "reading" | "done" (stream ended) | "failed" (read rejected)
    \* ---- config.ts: one call of loadConfig ----
    cfgLines,       \* history: the lines ~/.pgrok/config was written with
    cfgIn,          \* <<>> (no such file) or <<the text of the file>>
    cfgKeyExists,   \* what existsSync answers for the expanded key path
    cfgOut,         \* <<>> before the call, then <<what loadConfig threw or returned>>
    \* ---- ui/requests.ts: the request log panel ----
    requestCounter, \* the module-level counter the line ids are made from
    reqLog,         \* the children of scrollBox.content, oldest first
    reqAdded,       \* history: every request addRequest was called with, in order
    \* ---- tunnel.ts: the handle spawnTunnel returns ----
    callbacks,      \* how many callbacks onLine has registered
    unheard         \* history: the lines handed over while no callback was registered

tvars == <<tunnelState, panel, updates, proc, exitCode, exitSeen,
           outPipe, errPipe, written, delivered, events>>
pvars == <<pLine, pState, pOut>>
hvars == <<hpc, inbound, forwarded, upstreamResp, response, records, failsBefore,
           listening>>
vars == <<pLine, pState, pOut, tunnelState, panel, updates, proc, exitCode,
          exitSeen, outPipe, errPipe, written, delivered, events,
          hpc, inbound, forwarded, upstreamResp, response, records, failsBefore,
          listening,
          wpc, wsData, wsResp, tracked, ready, queue, upRS, upReq, upSent,
          upCloseArgs, upEvt, downClose, downPeerClose, arrived, preOpen,
          argv, cfgFile, spc, exitStatus, printed, session, bound, spawned,
          timerOn, displayUp, teardown, probe, listenPort, sshArgv, connPanel,
          now, durations, inFlight, total, started, completions, recorded, history,
          snap,
          ckIn, ckPc, ckPos, ckLen, ckCrc, ckRef, ckOut, ckPorts,
          rsRest, rsRead, rsCuts, rsBuffer, rsOut, rsPc,
          cfgLines, cfgIn, cfgKeyExists, cfgOut,
          requestCounter, reqLog, reqAdded,
          callbacks, unheard>>
wvars == <<wpc, wsData, wsResp, tracked, ready, queue, upRS, upReq, upSent,
           upCloseArgs, upEvt, downClose, downPeerClose, arrived, preOpen>>
svars == <<argv, cfgFile, spc, exitStatus, printed, session, bound, spawned,
           timerOn, displayUp, teardown, probe, listenPort, sshArgv, connPanel>>
stvars == <<now, durations, inFlight, total, started, completions, recorded, history,
            snap>>
ckvars == <<ckIn, ckPc, ckPos, ckLen, ckCrc, ckRef, ckOut, ckPorts>>
rvars == <<rsRest, rsRead, rsCuts, rsBuffer, rsOut, rsPc>>
cvars == <<cfgLines, cfgIn, cfgKeyExists, cfgOut>>
lvars == <<requestCounter, reqLog, reqAdded>>
cbvars == <<callbacks, unheard>>

(***************************************************************************)
(* String helpers: String.prototype.startsWith / trim / replace.           *)
(***************************************************************************)
\* an optional string: null is <<>>, a string s is <<s>>
Null == <<>>
Some(s) == <<s>>

\* String.prototype.startsWith
StartsWith(s, p) == Len(s) >= Len(p) /\ SubSeq(s, 1, Len(p)) = p

\* the white space String.prototype.trim removes (the part that can occur here)
IsSpace(c) == c \in {" ", "\t", "\n", "\r"}

RECURSIVE TrimLeft(_)
TrimLeft(s) == IF Len(s) > 0 /\ IsSpace(SubSeq(s, 1, 1)) THEN TrimLeft(Tail(s)) ELSE s

RECURSIVE TrimRight(_)
TrimRight(s) ==
    IF Len(s) > 0 /\ IsSpace(SubSeq(s, Len(s), Len(s)))
    THEN TrimRight(SubSeq(s, 1, Len(s) - 1))
    ELSE s

\* String.prototype.trim
Trim(s) == TrimRight(TrimLeft(s))

\* String.prototype.indexOf: the first position (1-based) of pat in s, 0 if none
IndexOf(s, pat) ==
    LET hits == {i \in 1..(Len(s) - Len(pat) + 1) : SubSeq(s, i, i + Len(pat) - 1) = pat}
    IN  IF hits = {} THEN 0 ELSE CHOOSE i \in hits : \A j \in hits : i <= j

\* String.prototype.replace(pat, rep) with a string pattern: the FIRST occurrence only
Replace(s, pat, rep) ==
    LET i == IndexOf(s, pat)
    IN  IF i = 0 THEN s
        ELSE SubSeq(s, 1, i - 1) \o rep \o SubSeq(s, i + Len(pat), Len(s))

(***************************************************************************)
(* tunnel.ts: TunnelState, initialTunnelState, parseTunnelMessage          *)
(***************************************************************************)
initialTunnelState ==
    [status |-> "connecting", url |-> Null, certStatus |-> "pending", error |-> Null]

\* a faulty variant of parseTunnelMessage: a provisioning line starts from a fresh state
parseTunnelMessage_provisioningFresh(line, state) ==
    IF StartsWith(line, "Provisioning TLS certificate")
    THEN [initialTunnelState EXCEPT !.status = "provisioning_tls"]
    ELSE IF line = "TLS certificate ready."
    THEN [state EXCEPT !.certStatus = "ready"]
    ELSE IF StartsWith(line, "Warning: TLS certificate not yet ready")
    THEN [state EXCEPT !.certStatus = "warning"]
    ELSE IF StartsWith(line, "pgrok tunnel active:")
    THEN [state EXCEPT !.status = "online",
                       !.url = Some(Trim(Replace(line, "pgrok tunnel active: ", "")))]
    ELSE IF StartsWith(line, "Error:")
    THEN [state EXCEPT !.status = "error", !.error = Some(line)]
    ELSE state

\* a faulty variant of parseTunnelMessage: the certificate lines also set the status
parseTunnelMessage_certSetsStatus(line, state) ==
    IF StartsWith(line, "Provisioning TLS certificate")
    THEN [state EXCEPT !.status = "provisioning_tls", !.certStatus = "pending"]
    ELSE IF line = "TLS certificate ready."
    THEN [state EXCEPT !.status = "online", !.certStatus = "ready"]
    ELSE IF StartsWith(line, "Warning: TLS certificate not yet ready")
    THEN [state EXCEPT !.status = "provisioning_tls", !.certStatus = "warning"]
    ELSE IF StartsWith(line, "pgrok tunnel active:")
    THEN [state EXCEPT !.status = "online",
                       !.url = Some(Trim(Replace(line, "pgrok tunnel active: ", "")))]
    ELSE IF StartsWith(line, "Error:")
    THEN [state EXCEPT !.status = "error", !.error = Some(line)]
    ELSE state

\* a faulty variant of parseTunnelMessage: the fall-through resets the certificate status
parseTunnelMessage_resetOnUnknown(line, state) ==
    IF StartsWith(line, "Provisioning TLS certificate")
    THEN [state EXCEPT !.status = "provisioning_tls", !.certStatus = "pending"]
    ELSE IF line = "TLS certificate ready."
    THEN [state EXCEPT !.certStatus = "ready"]
    ELSE IF StartsWith(line, "Warning: TLS certificate not yet ready")
    THEN [state EXCEPT !.certStatus = "warning"]
    ELSE IF StartsWith(line, "pgrok tunnel active:")
    THEN [state EXCEPT !.status = "online",
                       !.url = Some(Trim(Replace(line, "pgrok tunnel active: ", "")))]
    ELSE IF StartsWith(line, "Error:")
    THEN [state EXCEPT !.status = "error", !.error = Some(line)]
    ELSE [state EXCEPT !.certStatus = "pending"]

\* a faulty variant of parseTunnelMessage: an error state is terminal
parseTunnelMessage_errorTerminal(line, state) ==
    IF state.status = "error"
    THEN state
    ELSE IF StartsWith(line, "Provisioning TLS certificate")
    THEN [state EXCEPT !.status = "provisioning_tls", !.certStatus = "pending"]
    ELSE IF line = "TLS certificate ready."
    THEN [state EXCEPT !.certStatus = "ready"]
    ELSE IF StartsWith(line, "Warning: TLS certificate not yet ready")
    THEN [state EXCEPT !.certStatus = "warning"]
    ELSE IF StartsWith(line, "pgrok tunnel active:")
    THEN [state EXCEPT !.status = "online",
                       !.url = Some(Trim(Replace(line, "pgrok tunnel active: ", "")))]
    ELSE IF StartsWith(line, "Error:")
    THEN [state EXCEPT !.status = "error", !.error = Some(line)]
    ELSE state

parseTunnelMessage(line, state) ==
    IF StartsWith(line, "Provisioning TLS certificate")
    THEN [state EXCEPT !.status = "provisioning_tls", !.certStatus = "pending"]
    ELSE IF line = "TLS certificate ready."
    THEN [state EXCEPT !.certStatus = "ready"]
    ELSE IF StartsWith(line, "Warning: TLS certificate not yet ready")
    THEN [state EXCEPT !.certStatus = "warning"]
    ELSE IF StartsWith(line, "pgrok tunnel active:")
    THEN [state EXCEPT !.status = "online",
                       !.url = Some(Trim(Replace(line, "pgrok tunnel active: ", "")))]
    ELSE IF StartsWith(line, "Error:")
    THEN [state EXCEPT !.status = "error", !.error = Some(line)]
    ELSE state

\* the TunnelStates the pure-function checks range over
TunnelStates ==
    [status : {"connecting", "provisioning_tls", "online", "error"},
     url : {Null, Some("https://old.example.com")},
     certStatus : {"pending", "ready", "warning"},
     error : {Null, Some("Error: earlier")}]

\* the lines the pure-function checks range over: each head followed by each tail
LineHeads ==
    {"Provisioning TLS certificate", "TLS certificate ready.",
     "Warning: TLS certificate not yet ready", "pgrok tunnel active:", "Error:",
     "provisioning TLS certificate", "TLS certificate ready", "pgrok tunnel active",
     " Error:", "Permission denied", ""}
LineTails ==
    {"", " ", "x", " https://x.example.com", "  https://y.example.com  ", "\thttps://t"}
Lines == {h \o t : h \in LineHeads, t \in LineTails}

InitParse == pLine \in Lines /\ pState \in TunnelStates /\ pOut = <<>>
IdleParse == pLine = "" /\ pState = initialTunnelState /\ pOut = <<>>

\* one call parseTunnelMessage(pLine, pState); the arguments are left as they are
ApplyParse ==
    /\ pOut = <<>>
    /\ pOut' = <<parseTunnelMessage(pLine, pState)>>
    /\ UNCHANGED <<pLine, pState>>
    /\ UNCHANGED <<tvars, hvars, wvars, svars, stvars, ckvars, rvars, cvars, lvars, cbvars>>

(***************************************************************************)
(* index.ts: the orchestrator's tunnel-line and exit handlers, with the    *)
(* control-channel process and its two output pipes as the environment.    *)
(***************************************************************************)
\* lines the control-channel process writes (readStream hands them over trimmed)
ProcLines ==
    {"Provisioning TLS certificate for x.example.com...",
     "pgrok tunnel active: https://x.example.com",
     "Error: subdomain in use",
     "Permission denied (publickey)."}
ExitCodes == {0, 255}
\* at most this many lines are written by the process in one run
MaxLines == 3

\* Number.prototype.toString for a natural number (template literal `${code}`)
RECURSIVE NumStr(_)
NumStr(n) ==
    IF n < 10 THEN SubSeq("0123456789", n + 1, n + 1)
    ELSE NumStr(n \div 10) \o SubSeq("0123456789", (n % 10) + 1, (n % 10) + 1)

\* a faulty variant of onLineState: the line is applied to a fresh state, not the current one
onLineState_fresh(line, st) == parseTunnelMessage(line, initialTunnelState)

\* tunnel.onLine callback: tunnelState = parseTunnelMessage(line, tunnelState)
onLineState(line, st) == parseTunnelMessage(line, st)

\* a faulty variant of exitedState: the exit builds its state afresh, so the URL goes
exitedState_fresh(code, st) ==
    [initialTunnelState EXCEPT
        !.status = "error",
        !.error = Some("SSH connection lost (exit code " \o NumStr(code) \o ")")]

\* tunnel.process.exited continuation: {...tunnelState, status: "error", error: `...`}
exitedState(code, st) ==
    [st EXCEPT !.status = "error",
               !.error = Some("SSH connection lost (exit code " \o NumStr(code) \o ")")]

InitTunnel ==
    /\ tunnelState = initialTunnelState
    /\ panel = initialTunnelState      \* session.update(tunnelState, localPort)
    /\ updates = 1
    /\ proc = "running"
    /\ exitCode = 0
    /\ exitSeen = FALSE
    /\ outPipe = <<>>
    /\ errPipe = <<>>
    /\ written = 0
    /\ delivered = <<>>
    /\ events = <<>>

\* environment: the process writes one line to stdout
ProcWriteOut(l) ==
    /\ proc = "running" /\ written < MaxLines
    /\ outPipe' = Append(outPipe, l)
    /\ written' = written + 1
    /\ UNCHANGED <<tunnelState, panel, updates, proc, exitCode, exitSeen, errPipe,
                   delivered, events>>
    /\ UNCHANGED <<pvars, hvars, wvars, svars, stvars, ckvars, rvars, cvars, lvars, cbvars>>

\* environment: the process writes one line to stderr
ProcWriteErr(l) ==
    /\ proc = "running" /\ written < MaxLines
    /\ errPipe' = Append(errPipe, l)
    /\ written' = written + 1
    /\ UNCHANGED <<tunnelState, panel, updates, proc, exitCode, exitSeen, outPipe,
                   delivered, events>>
    /\ UNCHANGED <<pvars, hvars, wvars, svars, stvars, ckvars, rvars, cvars, lvars, cbvars>>

\* environment: the process exits; what it wrote stays in the pipes until read
ProcExit(code) ==
    /\ proc = "running"
    /\ proc' = "exited"
    /\ exitCode' = code
    /\ UNCHANGED <<tunnelState, panel, updates, exitSeen, outPipe, errPipe, written,
                   delivered, events>>
    /\ UNCHANGED <<pvars, hvars, wvars, svars, stvars, ckvars, rvars, cvars, lvars, cbvars>>

\* the onLine callback, run by readStream's handler for one line
OnLine(l) ==
    /\ tunnelState' = onLineState(l, tunnelState)
    /\ panel' = tunnelState'
    /\ updates' = updates + 1
    /\ delivered' = Append(delivered, l)
    /\ events' = Append(events, <<"line", l>>)

\* a faulty variant of onLine: the callback is not kept
onLine_forgets(registered) == registered

\* onLine: (cb) => callbacks.push(cb)
onLine(registered) == registered + 1

\* readStream's handler, (line) => callbacks.forEach((cb) => cb(line)): with no
\* callback registered the line goes nowhere
Deliver(l) ==
    IF callbacks = 0
    THEN /\ unheard' = Append(unheard, l)
         /\ UNCHANGED <<tunnelState, panel, updates, delivered, events, callbacks>>
    ELSE /\ OnLine(l)
         /\ UNCHANGED <<callbacks, unheard>>

\* readStream(proc.stdout): the next line of stdout is read and handed over
ReadStdout ==
    /\ outPipe # <<>>
    /\ Deliver(Head(outPipe))
    /\ outPipe' = Tail(outPipe)
    /\ UNCHANGED <<proc, exitCode, exitSeen, errPipe, written>>
    /\ UNCHANGED <<pvars, hvars, wvars, svars, stvars, ckvars, rvars, cvars, lvars>>

\* readStream(proc.stderr): the next line of stderr is read and handed over
ReadStderr ==
    /\ errPipe # <<>>
    /\ Deliver(Head(errPipe))
    /\ errPipe' = Tail(errPipe)
    /\ UNCHANGED <<proc, exitCode, exitSeen, outPipe, written>>
    /\ UNCHANGED <<pvars, hvars, wvars, svars, stvars, ckvars, rvars, cvars, lvars>>

\* a faulty variant of ExitedHandler: the exit is answered by spawning the process again
ExitedHandler_respawn ==
    /\ proc = "exited" /\ ~exitSeen
    /\ proc' = "running"
    /\ spawned' = spawned + 1
    /\ tunnelState' = initialTunnelState
    /\ panel' = tunnelState'
    /\ updates' = updates + 1
    /\ events' = Append(events, <<"exit", exitCode>>)
    /\ UNCHANGED <<exitCode, exitSeen, outPipe, errPipe, written, delivered>>
    /\ UNCHANGED <<argv, cfgFile, spc, exitStatus, printed, session, bound, timerOn,
                   displayUp, teardown, probe, listenPort, sshArgv, connPanel>>
    /\ UNCHANGED <<pvars, hvars, wvars, stvars, ckvars, rvars, cvars, lvars, cbvars>>

\* tunnel.process.exited.then(...): runs once, some time after the process exited
ExitedHandler ==
    /\ proc = "exited" /\ ~exitSeen
    /\ exitSeen' = TRUE
    /\ tunnelState' = exitedState(exitCode, tunnelState)
    /\ panel' = tunnelState'
    /\ updates' = updates + 1
    /\ events' = Append(events, <<"exit", exitCode>>)
    /\ UNCHANGED <<proc, exitCode, outPipe, errPipe, written, delivered>>
    /\ UNCHANGED <<pvars, hvars, wvars, svars, stvars, ckvars, rvars, cvars, lvars, cbvars>>

(***************************************************************************)
(* tunnel.ts: readStream, the line splitter on one output stream           *)
(*                                                                         *)
(* The stream is a string of ASCII characters, which TextDecoder.decode    *)
(* with {stream: true} hands on unchanged whatever the chunk boundaries;   *)
(* a read returns some non-empty prefix of what is still to come.          *)
(***************************************************************************)
\* String.prototype.split(/\r?\n|\r/): the pieces between the terminators
\* "\r\n", "\n" and "\r", at least one piece
RECURSIVE SplitLines(_, _)
SplitLines(s, piece) ==
    IF s = "" THEN <<piece>>
    ELSE IF Len(s) >= 2 /\ SubSeq(s, 1, 2) = "\r\n"
    THEN <<piece>> \o SplitLines(SubSeq(s, 3, Len(s)), "")
    ELSE IF SubSeq(s, 1, 1) \in {"\n", "\r"}
    THEN <<piece>> \o SplitLines(Tail(s), "")
    ELSE SplitLines(Tail(s), piece \o SubSeq(s, 1, 1))

\* for (const line of lines) { const trimmed = line.trim(); if (trimmed) handler(trimmed) }
RECURSIVE Handed(_)
Handed(lines) ==
    IF lines = <<>> THEN <<>>
    ELSE (IF Trim(Head(lines)) # "" THEN <<Trim(Head(lines))>> ELSE <<>>)
         \o Handed(Tail(lines))

\* the characters a stream is made of, and the longest stream tried
StreamChars == {"a", "b", " ", "\n", "\r"}
MaxStream == 4
StreamsUpTo(n) ==
    UNION {{[i \in 1..k |-> f[i]] : f \in [1..k -> StreamChars]} : k \in 0..n}
RECURSIVE Concat(_)
Concat(cs) == IF cs = <<>> THEN "" ELSE Head(cs) \o Concat(Tail(cs))

InitReadIdle ==
    /\ rsRest = "" /\ rsRead = "" /\ rsCuts = <<>>
    /\ rsBuffer = "" /\ rsOut = <<>> /\ rsPc = "reading"

\* readStream(stream, handler) entered: let buffer = ""
InitRead ==
    /\ rsRest \in {Concat(cs) : cs \in StreamsUpTo(MaxStream)}
    /\ rsRead = "" /\ rsCuts = <<>> /\ rsBuffer = "" /\ rsOut = <<>> /\ rsPc = "reading"

\* a faulty variant of ReadChunk: nothing is kept from one read to the next
ReadChunk_noCarry(n) ==
    /\ rsPc = "reading" /\ n \in 1..Len(rsRest)
    /\ rsOut' = rsOut \o Handed(SplitLines(SubSeq(rsRest, 1, n), ""))
    /\ rsBuffer' = ""
    /\ rsRead' = rsRead \o SubSeq(rsRest, 1, n)
    /\ rsCuts' = Append(rsCuts, n)
    /\ rsRest' = SubSeq(rsRest, n + 1, Len(rsRest))
    /\ UNCHANGED rsPc
    /\ UNCHANGED <<pvars, tvars, hvars, wvars, svars, stvars, ckvars, cvars, lvars, cbvars>>

\* a faulty variant of ReadChunk: the unterminated end of a chunk is let go
ReadChunk_losesPartial(n) ==
    /\ rsPc = "reading" /\ n \in 1..Len(rsRest)
    /\ LET lines == SplitLines(rsBuffer \o SubSeq(rsRest, 1, n), "")
       IN  /\ rsBuffer' = ""
           /\ rsOut' = rsOut \o Handed(SubSeq(lines, 1, Len(lines) - 1))
    /\ rsRead' = rsRead \o SubSeq(rsRest, 1, n)
    /\ rsCuts' = Append(rsCuts, n)
    /\ rsRest' = SubSeq(rsRest, n + 1, Len(rsRest))
    /\ UNCHANGED rsPc
    /\ UNCHANGED <<pvars, tvars, hvars, wvars, svars, stvars, ckvars, cvars, lvars, cbvars>>

\* one pass of the while loop with done = false: a chunk of n characters is read,
\* appended to the buffer and split; the last piece stays in the buffer
ReadChunk(n) ==
    /\ rsPc = "reading" /\ n \in 1..Len(rsRest)
    /\ LET lines == SplitLines(rsBuffer \o SubSeq(rsRest, 1, n), "")
       IN  /\ rsBuffer' = lines[Len(lines)]
           /\ rsOut' = rsOut \o Handed(SubSeq(lines, 1, Len(lines) - 1))
    /\ rsRead' = rsRead \o SubSeq(rsRest, 1, n)
    /\ rsCuts' = Append(rsCuts, n)
    /\ rsRest' = SubSeq(rsRest, n + 1, Len(rsRest))
    /\ UNCHANGED rsPc
    /\ UNCHANGED <<pvars, tvars, hvars, wvars, svars, stvars, ckvars, cvars, lvars, cbvars>>

\* the read that returns done = true: the loop is left and the rest is flushed
ReadEnd ==
    /\ rsPc = "reading" /\ rsRest = ""
    /\ rsPc' = "done"
    /\ rsOut' = IF Trim(rsBuffer) # "" THEN Append(rsOut, Trim(rsBuffer)) ELSE rsOut
    /\ UNCHANGED <<rsRest, rsRead, rsCuts, rsBuffer>>
    /\ UNCHANGED <<pvars, tvars, hvars, wvars, svars, stvars, ckvars, cvars, lvars, cbvars>>

\* reader.read() rejects (the stream was closed under the reader): the catch
\* block swallows it and nothing is flushed
ReadFail ==
    /\ rsPc = "reading"
    /\ rsPc' = "failed"
    /\ UNCHANGED <<rsRest, rsRead, rsCuts, rsBuffer, rsOut>>
    /\ UNCHANGED <<pvars, tvars, hvars, wvars, svars, stvars, ckvars, cvars, lvars, cbvars>>

(***************************************************************************)
(* proxy.ts: Headers, HOP_BY_HOP_HEADERS, stripHopByHop                    *)
(*                                                                         *)
(* A Headers object is a function from lower-case header names to values   *)
(* (the Fetch API lower-cases names and matches them case-insensitively).  *)
(***************************************************************************)
UpperCase == "ABCDEFGHIJKLMNOPQRSTUVWXYZ"
LowerCase == "abcdefghijklmnopqrstuvwxyz"

\* String.prototype.toLowerCase (ASCII letters)
RECURSIVE Lower(_)
Lower(s) ==
    IF s = "" THEN ""
    ELSE LET c == SubSeq(s, 1, 1)
             i == IndexOf(UpperCase, c)
         IN  (IF i = 0 THEN c ELSE SubSeq(LowerCase, i, i)) \o Lower(Tail(s))

\* String.prototype.split(sep) with a one-character separator
RECURSIVE Split(_, _)
Split(s, sep) ==
    LET i == IndexOf(s, sep)
    IN  IF i = 0 THEN <<s>>
        ELSE <<SubSeq(s, 1, i - 1)>> \o Split(SubSeq(s, i + 1, Len(s)), sep)

\* Fetch API header-name validation (an HTTP token): Headers.get/set/delete throw a
\* TypeError for a name that is empty or holds a separator or white space
IsToken(name) ==
    /\ Len(name) > 0
    /\ \A i \in 1..Len(name) :
           SubSeq(name, i, i) \notin {" ", "\t", ",", ";", ":", "(", ")", "/", "=", "\""}

\* a JavaScript condition on `string | null`: null and "" are falsy
Truthy(opt) == opt # Null /\ opt[1] # ""

\* Headers.get / delete / set, for a name given in lower case (the proxy's literals)
HGet(h, name) == IF name \in DOMAIN h THEN Some(h[name]) ELSE Null
HDelete(h, name) == [n \in (DOMAIN h) \ {name} |-> h[n]]
HSet(h, name, value) ==
    [n \in (DOMAIN h) \cup {name} |-> IF n = name THEN value ELSE h[n]]


HOP_BY_HOP_HEADERS ==
    {"connection", "keep-alive", "proxy-authenticate", "proxy-authorization",
     "proxy-connection", "te", "trailer", "transfer-encoding", "upgrade"}

\* the names listed in a Connection value: connectionHeader.split(",") then trim()
ConnectionNames(value) ==
    LET parts == Split(value, ",") IN {Trim(parts[i]) : i \in 1..Len(parts)}

\* a faulty variant of stripHopByHop: only the fixed set is removed, not the listed names
stripHopByHop_fixedSetOnly(headers) ==
    [threw |-> FALSE,
     headers |-> [n \in (DOMAIN headers) \ HOP_BY_HOP_HEADERS |-> headers[n]]]

\* stripHopByHop: [threw |-> TRUE] when headers.delete rejects a listed name,
\* otherwise the headers without the listed names and without the fixed set
stripHopByHop(headers) ==
    LET connectionHeader == HGet(headers, "connection")
        listed == IF Truthy(connectionHeader)
                  THEN ConnectionNames(connectionHeader[1]) ELSE {}
    IN  IF \E name \in listed : ~IsToken(name)
        THEN [threw |-> TRUE, headers |-> headers]
        ELSE [threw |-> FALSE,
              headers |-> [n \in ((DOMAIN headers) \ {Lower(x) : x \in listed})
                                    \ HOP_BY_HOP_HEADERS |-> headers[n]]]

(***************************************************************************)
(* proxy.ts: startProxy, the fetch handler for a regular HTTP request      *)
(***************************************************************************)
Reqs == {"r1", "r2"}
\* `localhost:${targetPort}`
TargetHost == "localhost:3000"

\* inbound requests: Host plus a drawn set of further headers
InboundExtras ==
    {<<>>,
     <<<<"connection", "keep-alive">>, <<"keep-alive", "timeout=5">>>>,
     <<<<"connection", "Keep-Alive, X-Custom">>, <<"x-custom", "1">>,
       <<"te", "trailers">>, <<"accept-encoding", "gzip">>>>,
     <<<<"connection", "close, host, x-forwarded-for">>,
       <<"x-forwarded-for", "203.0.113.7">>, <<"x-real-ip", "198.51.100.2">>>>,
     <<<<"connection", "keep-alive, ">>, <<"x-custom", "1">>>>,
     <<<<"transfer-encoding", "chunked">>, <<"proxy-authorization", "Basic x">>,
       <<"x-forwarded-proto", "http">>, <<"cookie", "a=b">>>>}
MkHeaders(pairs) ==
    [n \in {pairs[i][1] : i \in 1..Len(pairs)} |->
        pairs[CHOOSE i \in 1..Len(pairs) : pairs[i][1] = n][2]]
InboundRequests ==
    {[method |-> "GET", path |-> "/a", search |-> "?q=1",
      headers |-> HSet(MkHeaders(x), "host", "myapp.example.com")] : x \in InboundExtras}

\* what fetch() to the local target can resolve with
UpstreamResponses ==
    {[status |-> 200, statusText |-> "OK",
      headers |-> MkHeaders(<<<<"content-type", "text/html">>,
                              <<"content-length", "12">>>>)],
     [status |-> 404, statusText |-> "Not Found",
      headers |-> MkHeaders(<<<<"connection", "keep-alive">>,
                              <<"keep-alive", "timeout=5">>,
                              <<"content-encoding", "gzip">>>>)],
     [status |-> 200, statusText |-> "OK",
      headers |-> MkHeaders(<<<<"connection", "close,">>,
                              <<"content-type", "text/plain">>>>)]}

\* onRequest(...) of the failure path and the Response built in the catch block
BadGatewayRecord(r, req) ==
    [req |-> r, method |-> req.method, path |-> req.path,
     statusCode |-> 502, statusText |-> "Bad Gateway"]
BadGatewayResponse ==
    [status |-> 502, statusText |-> "",
     headers |-> MkHeaders(<<<<"content-type", "text/plain">>>>),
     body |-> "502 Bad Gateway - local service not running\n"]

\* a faulty variant of ForwardedHeaders: X-Forwarded-For is overwritten, not appended to,
\* and an inbound X-Forwarded-Proto is replaced
ForwardedHeaders_overwrite(req, stripped) ==
    LET originalHost == IF Truthy(HGet(req.headers, "host"))
                        THEN HGet(req.headers, "host")[1] ELSE ""
        clientIp == IF Truthy(HGet(req.headers, "x-real-ip"))
                    THEN HGet(req.headers, "x-real-ip")[1] ELSE "127.0.0.1"
        h1 == HSet(stripped, "host", TargetHost)
        h2 == HSet(h1, "x-forwarded-for", clientIp)
        h3 == HSet(h2, "x-forwarded-proto", "https")
        h4 == HSet(h3, "x-forwarded-host", originalHost)
        h5 == HSet(h4, "x-forwarded-port", "443")
    IN  HDelete(h5, "accept-encoding")

\* the headers handed to fetch(): lines 264-290 after a successful strip
ForwardedHeaders(req, stripped) ==
    LET originalHost == IF Truthy(HGet(req.headers, "host"))
                        THEN HGet(req.headers, "host")[1] ELSE ""
        h1 == HSet(stripped, "host", TargetHost)
        priorXff == HGet(req.headers, "x-forwarded-for")
        clientIp == IF Truthy(HGet(req.headers, "x-real-ip"))
                    THEN HGet(req.headers, "x-real-ip")[1] ELSE "127.0.0.1"
        h2 == HSet(h1, "x-forwarded-for",
                   IF Truthy(priorXff) THEN priorXff[1] \o ", " \o clientIp ELSE clientIp)
        priorProto == HGet(req.headers, "x-forwarded-proto")
        h3 == HSet(h2, "x-forwarded-proto",
                   IF Truthy(priorProto) THEN priorProto[1] ELSE "https")
        h4 == HSet(h3, "x-forwarded-host", originalHost)
        h5 == HSet(h4, "x-forwarded-port", "443")
    IN  HDelete(h5, "accept-encoding")

\* req.headers.get("upgrade")?.toLowerCase() === "websocket"
IsUpgrade(req) ==
    /\ HGet(req.headers, "upgrade") # Null
    /\ Lower(HGet(req.headers, "upgrade")[1]) = "websocket"

InitHttp ==
    /\ hpc = [r \in Reqs |-> "idle"]
    /\ inbound = [r \in Reqs |-> <<>>]
    /\ forwarded = [r \in Reqs |-> <<>>]
    /\ upstreamResp = [r \in Reqs |-> <<>>]
    /\ response = [r \in Reqs |-> <<>>]
    /\ records = <<>>
    /\ failsBefore = [r \in Reqs |-> 0]
    /\ listening = TRUE

BadGatewayCount == Cardinality({i \in 1..Len(records) : records[i].statusCode = 502})

\* fetch(req, server), regular HTTP, up to `await fetch(targetUrl, ...)`: the
\* forwarded headers are built; a throw lands in the catch block
Receive(r, req) ==
    /\ listening /\ hpc[r] = "idle"
    /\ ~IsUpgrade(req)
    /\ inbound' = [inbound EXCEPT ![r] = <<req>>]
    /\ failsBefore' = [failsBefore EXCEPT ![r] = BadGatewayCount]
    /\ LET s == stripHopByHop(req.headers)
       IN  IF s.threw
           THEN /\ records' = Append(records, BadGatewayRecord(r, req))
                /\ response' = [response EXCEPT ![r] = <<BadGatewayResponse>>]
                /\ hpc' = [hpc EXCEPT ![r] = "done"]
                /\ UNCHANGED forwarded
           ELSE /\ forwarded' = [forwarded EXCEPT ![r] = <<ForwardedHeaders(req, s.headers)>>]
                /\ hpc' = [hpc EXCEPT ![r] = "forwarding"]
                /\ UNCHANGED <<records, response>>
    /\ UNCHANGED <<upstreamResp, listening>>

\* the same with onRequest a callback that touches nothing else
HttpReceive(r, req) ==
    /\ Receive(r, req)
    /\ UNCHANGED <<pvars, tvars, wvars, svars, stvars, ckvars, rvars, cvars, lvars, cbvars>>

\* fetch() resolved: onRequest with the upstream status, then the response headers
\* are built inside the same try block; a throw there lands in the catch block
ForwardOk(r, resp) ==
    /\ hpc[r] = "forwarding"
    /\ upstreamResp' = [upstreamResp EXCEPT ![r] = <<resp>>]
    /\ LET rec == [req |-> r, method |-> inbound[r][1].method,
                   path |-> inbound[r][1].path,
                   statusCode |-> resp.status, statusText |-> resp.statusText]
           s == stripHopByHop(resp.headers)
       IN  IF s.threw
           THEN /\ records' = Append(Append(records, rec), BadGatewayRecord(r, inbound[r][1]))
                /\ response' = [response EXCEPT ![r] = <<BadGatewayResponse>>]
           ELSE /\ records' = Append(records, rec)
                /\ response' = [response EXCEPT ![r] =
                       <<[status |-> resp.status, statusText |-> resp.statusText,
                          headers |-> HDelete(HDelete(s.headers, "content-encoding"),
                                              "content-length"),
                          body |-> "upstream body"]>>]
    /\ hpc' = [hpc EXCEPT ![r] = "done"]
    /\ UNCHANGED <<inbound, forwarded, failsBefore, listening>>

\* the same with onRequest a callback that touches nothing else
HttpForwardOk(r, resp) ==
    /\ ForwardOk(r, resp)
    /\ UNCHANGED <<pvars, tvars, wvars, svars, stvars, ckvars, rvars, cvars, lvars, cbvars>>

\* a faulty variant of HttpForwardFail: the failure is answered but not recorded
HttpForwardFail_noRecord(r) ==
    /\ hpc[r] = "forwarding"
    /\ response' = [response EXCEPT ![r] = <<BadGatewayResponse>>]
    /\ hpc' = [hpc EXCEPT ![r] = "done"]
    /\ UNCHANGED <<records, inbound, forwarded, upstreamResp, failsBefore, listening>>
    /\ UNCHANGED <<pvars, tvars, wvars, svars, stvars, ckvars, rvars, cvars, lvars, cbvars>>

\* fetch() rejected (nothing listening on the target, connection reset): catch block
ForwardFail(r) ==
    /\ hpc[r] = "forwarding"
    /\ records' = Append(records, BadGatewayRecord(r, inbound[r][1]))
    /\ response' = [response EXCEPT ![r] = <<BadGatewayResponse>>]
    /\ hpc' = [hpc EXCEPT ![r] = "done"]
    /\ UNCHANGED <<inbound, forwarded, upstreamResp, failsBefore, listening>>

\* the same with onRequest a callback that touches nothing else
HttpForwardFail(r) ==
    /\ ForwardFail(r)
    /\ UNCHANGED <<pvars, tvars, wvars, svars, stvars, ckvars, rvars, cvars, lvars, cbvars>>

(***************************************************************************)
(* proxy.ts: the WebSocket upgrade branch of fetch and the websocket        *)
(* handlers open / message / close with the upstream listeners.            *)
(*                                                                         *)
(* Upstream socket states: "NONE" (not created), "CONNECTING", "OPEN",     *)
(* "CLOSING" (close handshake under way, close event still to come),       *)
(* "FAILED" (error event fired, close event still to come), "CLOSED".      *)
(* readyState === WebSocket.OPEN holds in "OPEN" only.                     *)
(***************************************************************************)
Conns == {"c1", "c2"}
\* at most this many downstream messages are handled in one run, over all connections
MaxMsgs == 3
\* the k-th message the downstream peer sends on a connection
DownMsg(k) == "m" \o NumStr(k)
\* the close code and reason the downstream peer / the upstream peer closes with
DownCloses == {<<1001, "going away">>}
UpCloses == {<<1000, "bye">>}

UpgradeRequests ==
    {[method |-> "GET", path |-> "/ws", search |-> "?room=1",
      headers |-> MkHeaders(<<<<"host", "myapp.example.com">>,
                              <<"upgrade", "WebSocket">>,
                              <<"connection", "Upgrade">>,
                              <<"sec-websocket-key", "k">>,
                              <<"sec-websocket-version", "13">>,
                              <<"cookie", "sid=1">>,
                              <<"sec-websocket-protocol", "chat, superchat">>>>)],
     [method |-> "GET", path |-> "/hmr", search |-> "",
      headers |-> MkHeaders(<<<<"host", "myapp.example.com">>,
                              <<"upgrade", "websocket">>,
                              <<"connection", "keep-alive, Upgrade">>,
                              <<"sec-websocket-key", "k">>,
                              <<"sec-websocket-extensions", "permessage-deflate">>,
                              <<"origin", "https://myapp.example.com">>>>)]}

wsSpecHeaders ==
    {"upgrade", "connection", "sec-websocket-key", "sec-websocket-version",
     "sec-websocket-extensions", "sec-websocket-accept"}

\* the WsData handed to server.upgrade: lines 221-252
UpgradeData(req) ==
    LET kept == [n \in (DOMAIN req.headers) \ wsSpecHeaders |-> req.headers[n]]
        fwdHeaders == HSet(kept, "host", TargetHost)
        protocolHeader == HGet(req.headers, "sec-websocket-protocol")
        parts == IF Truthy(protocolHeader) THEN Split(protocolHeader[1], ",") ELSE <<>>
    IN  [path |-> req.path, search |-> req.search, headers |-> fwdHeaders,
         protocols |-> [i \in 1..Len(parts) |-> Trim(parts[i])]]

\* the arguments of `new WebSocket(upstreamUrl, protocols or undefined)`: a URL and
\* the subprotocols; no headers are handed to the constructor
UpstreamArgs(data) ==
    [url |-> "ws://" \o TargetHost \o data.path \o data.search,
     protocols |-> data.protocols,
     headers |-> Null]

RECURSIVE SumOver(_, _)
SumOver(f, S) ==
    IF S = {} THEN 0 ELSE LET x == CHOOSE x \in S : TRUE IN f[x] + SumOver(f, S \ {x})
\* the number of downstream messages handled so far, over all connections
TotalArrived == SumOver(arrived, Conns)

InitWs ==
    /\ wpc = [c \in Conns |-> "none"]
    /\ wsData = [c \in Conns |-> <<>>]
    /\ wsResp = [c \in Conns |-> <<>>]
    /\ tracked = {}
    /\ ready = [c \in Conns |-> FALSE]
    /\ queue = [c \in Conns |-> <<>>]
    /\ upRS = [c \in Conns |-> "NONE"]
    /\ upReq = [c \in Conns |-> <<>>]
    /\ upSent = [c \in Conns |-> <<>>]
    /\ upCloseArgs = [c \in Conns |-> <<>>]
    /\ upEvt = [c \in Conns |-> <<>>]
    /\ downClose = [c \in Conns |-> <<>>]
    /\ downPeerClose = [c \in Conns |-> <<>>]
    /\ arrived = [c \in Conns |-> 0]
    /\ preOpen = [c \in Conns |-> 0]

\* fetch(req, server) for an upgrade request: server.upgrade succeeds or not; no
\* HttpRequest record is emitted on this path
FetchUpgrade(c, req, success) ==
    /\ listening /\ wpc[c] = "none"
    /\ IsUpgrade(req)
    /\ IF success
       THEN /\ wpc' = [wpc EXCEPT ![c] = "upgraded"]
            /\ wsData' = [wsData EXCEPT ![c] = <<UpgradeData(req)>>]
            /\ UNCHANGED wsResp
       ELSE /\ wpc' = [wpc EXCEPT ![c] = "rejected"]
            /\ wsResp' = [wsResp EXCEPT ![c] = <<400>>]
            /\ UNCHANGED wsData
    /\ UNCHANGED <<tracked, ready, queue, upRS, upReq, upSent, upCloseArgs, upEvt,
                   downClose, downPeerClose, arrived, preOpen>>
    /\ UNCHANGED <<pvars, tvars, hvars, svars, stvars, ckvars, rvars, cvars, lvars, cbvars>>

\* websocket.open(ws): the upstream socket is created and the relay state tracked
WsOpen(c) ==
    /\ wpc[c] = "upgraded"
    /\ wpc' = [wpc EXCEPT ![c] = "open"]
    /\ upReq' = [upReq EXCEPT ![c] = <<UpstreamArgs(wsData[c][1])>>]
    /\ upRS' = [upRS EXCEPT ![c] = "CONNECTING"]
    /\ ready' = [ready EXCEPT ![c] = FALSE]
    /\ queue' = [queue EXCEPT ![c] = <<>>]
    /\ tracked' = tracked \cup {c}
    /\ UNCHANGED <<wsData, wsResp, upSent, upCloseArgs, upEvt, downClose,
                   downPeerClose, arrived, preOpen>>
    /\ UNCHANGED <<pvars, tvars, hvars, svars, stvars, ckvars, rvars, cvars, lvars, cbvars>>

\* a faulty variant of WsMessage: messages are sent at once, whether or not upstream is open
WsMessage_noQueue(c) ==
    /\ wpc[c] = "open" /\ TotalArrived < MaxMsgs
    /\ arrived' = [arrived EXCEPT ![c] = @ + 1]
    /\ preOpen' = [preOpen EXCEPT ![c] = IF ready[c] THEN @ ELSE @ + 1]
    /\ IF c \in tracked
       THEN upSent' = [upSent EXCEPT ![c] = Append(@, DownMsg(arrived[c] + 1))]
       ELSE UNCHANGED upSent
    /\ UNCHANGED <<wpc, wsData, wsResp, tracked, ready, queue, upRS, upReq, upCloseArgs,
                   upEvt, downClose, downPeerClose>>
    /\ UNCHANGED <<pvars, tvars, hvars, svars, stvars, ckvars, rvars, cvars, lvars, cbvars>>

\* websocket.message(ws, message): the downstream peer's next message
WsMessage(c) ==
    /\ wpc[c] = "open" /\ TotalArrived < MaxMsgs
    /\ arrived' = [arrived EXCEPT ![c] = @ + 1]
    /\ preOpen' = [preOpen EXCEPT ![c] = IF ready[c] THEN @ ELSE @ + 1]
    /\ IF c \notin tracked
       THEN UNCHANGED <<upSent, queue>>
       ELSE IF ready[c] /\ upRS[c] = "OPEN"
            THEN /\ upSent' = [upSent EXCEPT ![c] = Append(@, DownMsg(arrived[c] + 1))]
                 /\ UNCHANGED queue
            ELSE /\ queue' = [queue EXCEPT ![c] = Append(@, DownMsg(arrived[c] + 1))]
                 /\ UNCHANGED upSent
    /\ UNCHANGED <<wpc, wsData, wsResp, tracked, ready, upRS, upReq, upCloseArgs,
                   upEvt, downClose, downPeerClose>>
    /\ UNCHANGED <<pvars, tvars, hvars, svars, stvars, ckvars, rvars, cvars, lvars, cbvars>>

\* what the flush loop of the 'open' listener hands to upstream.send: the first n
\* queued messages, in queue order (n < Len(q) when a send throws and the loop breaks)
Flushed(q, n) == SubSeq(q, 1, n)

\* upstream 'open' listener: ready, flush the queue, empty it.  n is the number
\* of sends that succeed; a send throws only when the upstream has gone meanwhile
UpstreamOpen(c, n) ==
    /\ upRS[c] = "CONNECTING"
    /\ n \in 0..Len(queue[c])
    /\ ready' = [ready EXCEPT ![c] = TRUE]
    /\ upSent' = [upSent EXCEPT ![c] = @ \o Flushed(queue[c], n)]
    /\ queue' = [queue EXCEPT ![c] = <<>>]
    /\ IF n = Len(queue[c])
       THEN /\ upRS' = [upRS EXCEPT ![c] = "OPEN"]
            /\ UNCHANGED upEvt
       ELSE /\ upRS' = [upRS EXCEPT ![c] = "CLOSING"]
            /\ upEvt' = [upEvt EXCEPT ![c] = <<1006, "">>]
    /\ UNCHANGED <<wpc, wsData, wsResp, tracked, upReq, upCloseArgs, downClose,
                   downPeerClose, arrived, preOpen>>
    /\ UNCHANGED <<pvars, tvars, hvars, svars, stvars, ckvars, rvars, cvars, lvars, cbvars>>

\* environment: the upstream peer starts the closing handshake
UpstreamPeerClose(c, cr) ==
    /\ upRS[c] = "OPEN"
    /\ upRS' = [upRS EXCEPT ![c] = "CLOSING"]
    /\ upEvt' = [upEvt EXCEPT ![c] = cr]
    /\ UNCHANGED <<wpc, wsData, wsResp, tracked, ready, queue, upReq, upSent,
                   upCloseArgs, downClose, downPeerClose, arrived, preOpen>>
    /\ UNCHANGED <<pvars, tvars, hvars, svars, stvars, ckvars, rvars, cvars, lvars, cbvars>>

\* ws.close(code, reason) on the downstream socket: closes it unless already closed
CloseDownstream(c, cr) ==
    IF wpc[c] = "open"
    THEN /\ wpc' = [wpc EXCEPT ![c] = "closed"]
         /\ downClose' = [downClose EXCEPT ![c] = cr]
    ELSE UNCHANGED <<wpc, downClose>>

\* upstream 'close' listener
UpstreamCloseEvent(c) ==
    /\ upRS[c] \in {"CLOSING", "FAILED"}
    /\ upRS' = [upRS EXCEPT ![c] = "CLOSED"]
    /\ tracked' = tracked \ {c}
    /\ CloseDownstream(c, upEvt[c])
    /\ UNCHANGED <<wsData, wsResp, ready, queue, upReq, upSent, upCloseArgs, upEvt,
                   downPeerClose, arrived, preOpen>>
    /\ UNCHANGED <<pvars, tvars, hvars, svars, stvars, ckvars, rvars, cvars, lvars, cbvars>>

\* a faulty variant of UpstreamError: the relay state stays in the map
UpstreamError_keepsEntry(c) ==
    /\ upRS[c] \in {"CONNECTING", "OPEN"}
    /\ upRS' = [upRS EXCEPT ![c] = "FAILED"]
    /\ upEvt' = [upEvt EXCEPT ![c] = <<1006, "">>]
    /\ CloseDownstream(c, <<1011, "upstream error">>)
    /\ UNCHANGED <<wsData, wsResp, tracked, ready, queue, upReq, upSent, upCloseArgs,
                   downPeerClose, arrived, preOpen>>
    /\ UNCHANGED <<pvars, tvars, hvars, svars, stvars, ckvars, rvars, cvars, lvars, cbvars>>

\* upstream 'error' listener (connect failure or protocol failure); the close
\* event follows with code 1006
UpstreamError(c) ==
    /\ upRS[c] \in {"CONNECTING", "OPEN"}
    /\ upRS' = [upRS EXCEPT ![c] = "FAILED"]
    /\ upEvt' = [upEvt EXCEPT ![c] = <<1006, "">>]
    /\ tracked' = tracked \ {c}
    /\ CloseDownstream(c, <<1011, "upstream error">>)
    /\ UNCHANGED <<wsData, wsResp, ready, queue, upReq, upSent, upCloseArgs,
                   downPeerClose, arrived, preOpen>>
    /\ UNCHANGED <<pvars, tvars, hvars, svars, stvars, ckvars, rvars, cvars, lvars, cbvars>>

\* a faulty variant of WsClose: the upstream socket is left as it is
WsClose_noPropagate(c, cr) ==
    /\ wpc[c] = "open"
    /\ wpc' = [wpc EXCEPT ![c] = "closed"]
    /\ downPeerClose' = [downPeerClose EXCEPT ![c] = cr]
    /\ tracked' = tracked \ {c}
    /\ UNCHANGED <<wsData, wsResp, ready, queue, upReq, upSent, downClose, arrived,
                   preOpen, upRS, upCloseArgs, upEvt>>
    /\ UNCHANGED <<pvars, tvars, hvars, svars, stvars, ckvars, rvars, cvars, lvars, cbvars>>

\* websocket.close(ws, code, reason): the downstream peer closed with cr
WsClose(c, cr) ==
    /\ wpc[c] = "open"
    /\ wpc' = [wpc EXCEPT ![c] = "closed"]
    /\ downPeerClose' = [downPeerClose EXCEPT ![c] = cr]
    /\ tracked' = tracked \ {c}
    /\ IF c \in tracked /\ upRS[c] \in {"CONNECTING", "OPEN"}
       THEN /\ upRS' = [upRS EXCEPT ![c] = "CLOSING"]
            /\ upCloseArgs' = [upCloseArgs EXCEPT ![c] = cr]
            /\ upEvt' = [upEvt EXCEPT ![c] = IF upRS[c] = "OPEN" THEN cr ELSE <<1006, "">>]
       ELSE UNCHANGED <<upRS, upCloseArgs, upEvt>>
    /\ UNCHANGED <<wsData, wsResp, ready, queue, upReq, upSent, downClose, arrived,
                   preOpen>>
    /\ UNCHANGED <<pvars, tvars, hvars, svars, stvars, ckvars, rvars, cvars, lvars, cbvars>>

(***************************************************************************)
(* config.ts: loadConfig                                                   *)
(***************************************************************************)
\* homedir()
Home == "/home/u"

\* lines 27-35: the KEY=VALUE pairs of the file; a later line overrides an earlier one
RECURSIVE ConfigVars(_, _)
ConfigVars(lines, kv) ==
    IF lines = <<>> THEN kv
    ELSE LET trimmed == Trim(Head(lines))
             eqIdx == IndexOf(trimmed, "=")
         IN  IF trimmed = "" \/ StartsWith(trimmed, "#") \/ eqIdx = 0
             THEN ConfigVars(Tail(lines), kv)
             ELSE ConfigVars(Tail(lines),
                             HSet(kv, Trim(SubSeq(trimmed, 1, eqIdx - 1)),
                                  Trim(SubSeq(trimmed, eqIdx + 1, Len(trimmed)))))

\* a faulty variant of loadConfig: the key path is returned without asking
\* whether the file is there
loadConfig_keyUnchecked(file, keyExists) ==
    IF file = Null
    THEN [threw |-> TRUE,
          message |-> "Config not found at " \o Home \o "/.pgrok/config. Run setup.sh client first."]
    ELSE LET kv == ConfigVars(Split(file[1], "\n"), MkHeaders(<<>>))
             rawKey == HGet(kv, "PGROK_SSH_KEY")
             sshKey == IF rawKey = Null THEN Null
                       ELSE IF StartsWith(rawKey[1], "~")
                            THEN Some(Home \o Tail(rawKey[1])) ELSE rawKey
         IN  IF ~Truthy(HGet(kv, "PGROK_HOST"))
             THEN [threw |-> TRUE, message |-> "PGROK_HOST not set in ~/.pgrok/config"]
             ELSE IF ~Truthy(HGet(kv, "PGROK_DOMAIN"))
             THEN [threw |-> TRUE, message |-> "PGROK_DOMAIN not set in ~/.pgrok/config"]
             ELSE [threw |-> FALSE,
                   config |-> [host |-> kv["PGROK_HOST"],
                               domain |-> kv["PGROK_DOMAIN"],
                               user |-> IF Truthy(HGet(kv, "PGROK_USER"))
                                        THEN kv["PGROK_USER"] ELSE "pgrok",
                               sshKey |-> IF Truthy(sshKey) THEN sshKey ELSE Null]]

\* loadConfig(): file is <<>> when ~/.pgrok/config does not exist; keyExists is
\* what existsSync answers for the expanded key path
loadConfig(file, keyExists) ==
    IF file = Null
    THEN [threw |-> TRUE,
          message |-> "Config not found at " \o Home \o "/.pgrok/config. Run setup.sh client first."]
    ELSE LET kv == ConfigVars(Split(file[1], "\n"), MkHeaders(<<>>))
             rawKey == HGet(kv, "PGROK_SSH_KEY")
             sshKey == IF rawKey = Null THEN Null
                       ELSE IF StartsWith(rawKey[1], "~")
                            THEN Some(Home \o Tail(rawKey[1])) ELSE rawKey
         IN  IF ~Truthy(HGet(kv, "PGROK_HOST"))
             THEN [threw |-> TRUE, message |-> "PGROK_HOST not set in ~/.pgrok/config"]
             ELSE IF ~Truthy(HGet(kv, "PGROK_DOMAIN"))
             THEN [threw |-> TRUE, message |-> "PGROK_DOMAIN not set in ~/.pgrok/config"]
             ELSE [threw |-> FALSE,
                   config |-> [host |-> kv["PGROK_HOST"],
                               domain |-> kv["PGROK_DOMAIN"],
                               user |-> IF Truthy(HGet(kv, "PGROK_USER"))
                                        THEN kv["PGROK_USER"] ELSE "pgrok",
                               sshKey |-> IF Truthy(sshKey) /\ keyExists
                                          THEN sshKey ELSE Null]]

(***************************************************************************)
(* index.ts: argument parsing and validation                               *)
(***************************************************************************)
VERSION == "0.1.0"
Digits == "0123456789"

IsDigit(c) == IndexOf(Digits, c) # 0
IsAlnum(c) == IndexOf(LowerCase \o Digits, c) # 0

\* the longest prefix of s made of decimal digits
RECURSIVE DigitPrefix(_)
DigitPrefix(s) ==
    IF Len(s) > 0 /\ IsDigit(SubSeq(s, 1, 1))
    THEN SubSeq(s, 1, 1) \o DigitPrefix(Tail(s)) ELSE ""

\* the value of a string of decimal digits
RECURSIVE DigitsValue(_)
DigitsValue(d) ==
    IF d = "" THEN 0
    ELSE 10 * DigitsValue(SubSeq(d, 1, Len(d) - 1))
         + (IndexOf(Digits, SubSeq(d, Len(d), Len(d))) - 1)

\* parseInt(s, 10): leading white space is skipped, a sign is accepted, then the
\* longest run of digits is read and whatever follows is ignored; NaN (<<>>) when
\* there is no digit
parseInt(s) ==
    LET t == TrimLeft(s)
        u == IF StartsWith(t, "-") \/ StartsWith(t, "+") THEN Tail(t) ELSE t
        d == DigitPrefix(u)
    IN  IF d = "" THEN Null
        ELSE Some(IF StartsWith(t, "-") THEN 0 - DigitsValue(d) ELSE DigitsValue(d))

\* a faulty variant of SubdomainPattern: the first and last characters may be
\* hyphens like the ones between
SubdomainPattern_hyphenEnds(s) ==
    /\ Len(s) >= 1 /\ Len(s) <= 63
    /\ \A i \in 1..Len(s) : IsAlnum(SubSeq(s, i, i)) \/ SubSeq(s, i, i) = "-"

\* /^[a-z0-9]([a-z0-9-]{0,61}[a-z0-9])?$/.test(s)
SubdomainPattern(s) ==
    /\ Len(s) >= 1
    /\ IsAlnum(SubSeq(s, 1, 1))
    /\ Len(s) >= 2 =>
          /\ Len(s) - 2 <= 61
          /\ \A i \in 2..(Len(s) - 1) : IsAlnum(SubSeq(s, i, i)) \/ SubSeq(s, i, i) = "-"
          /\ IsAlnum(SubSeq(s, Len(s), Len(s)))

\* Array.prototype.includes
Includes(seq, x) == \E i \in 1..Len(seq) : seq[i] = x

\* args.filter((a) => !a.startsWith("--"))
IsPositional(a) == ~StartsWith(a, "--")
positionalArgs(args) == SelectSeq(args, IsPositional)

(***************************************************************************)
(* tunnel.ts: CRC_TABLE, posixCksum, computeRemotePort                     *)
(*                                                                         *)
(* A JavaScript number that is the result of a 32-bit operator is held as  *)
(* <<hi, lo>> with value hi * 2^16 + lo and lo in 0..65535: hi is in       *)
(* -32768..32767 for a signed result (<<, ^, &, ~) and in 0..65535 for an  *)
(* unsigned one (>>>, a Uint32Array element).                              *)
(***************************************************************************)
\* 2^k
RECURSIVE Pow2(_)
Pow2(k) == IF k = 0 THEN 1 ELSE 2 * Pow2(k - 1)

Half == Pow2(16)

\* a small non-negative integer as a word
W(n) == <<n \div Half, n % Half>>

\* ToUint32 and ToInt32 of a word
ToUint32(x) == <<x[1] % Half, x[2]>>
ToInt32(x) == <<((x[1] + 32768) % Half) - 32768, x[2]>>

\* bitwise exclusive-or and conjunction of two numbers in 0..65535
RECURSIVE Xor16(_, _)
Xor16(a, b) ==
    IF a = 0 THEN b ELSE IF b = 0 THEN a
    ELSE 2 * Xor16(a \div 2, b \div 2) + ((a + b) % 2)
RECURSIVE And16(_, _)
And16(a, b) ==
    IF a = 0 \/ b = 0 THEN 0
    ELSE 2 * And16(a \div 2, b \div 2) + ((a % 2) * (b % 2))

\* x << k for k in 0..31
Shl(x, k) ==
    LET u == ToUint32(x)
    IN  IF k >= 16
        THEN ToInt32(<<(u[2] * Pow2(k - 16)) % Half, 0>>)
        ELSE ToInt32(<<(((u[1] * Pow2(k)) % Half) + ((u[2] * Pow2(k)) \div Half)) % Half,
                       (u[2] * Pow2(k)) % Half>>)

\* x >>> k for k in 0..31
Shr(x, k) ==
    LET u == ToUint32(x)
    IN  IF k >= 16
        THEN <<0, u[1] \div Pow2(k - 16)>>
        ELSE <<u[1] \div Pow2(k),
               ((u[1] % Pow2(k)) * Pow2(16 - k)) + (u[2] \div Pow2(k))>>

\* x ^ y, x & y, ~x
XorW(x, y) ==
    LET u == ToUint32(x) v == ToUint32(y)
    IN  ToInt32(<<Xor16(u[1], v[1]), Xor16(u[2], v[2])>>)
AndW(x, y) ==
    LET u == ToUint32(x) v == ToUint32(y)
    IN  ToInt32(<<And16(u[1], v[1]), And16(u[2], v[2])>>)
NotW(x) ==
    LET u == ToUint32(x) IN ToInt32(<<(Half - 1) - u[1], (Half - 1) - u[2]>>)

\* the literals 0x04c11db7, 0x80000000 and 0xff
Poly == <<1217, 7607>>
TopBit == <<32768, 0>>
LowByte == <<0, 255>>

\* lines 217-222: the eight shift steps of one table entry, from step j on
RECURSIVE TableEntry(_, _)
TableEntry(crc, j) ==
    IF j = 8 THEN crc
    ELSE TableEntry(IF AndW(crc, TopBit) # <<0, 0>>
                    THEN XorW(Shl(crc, 1), Poly) ELSE Shl(crc, 1),
                    j + 1)

\* CRC_TABLE: a Uint32Array of 256 entries
CRC_TABLE == [i \in 0..255 |-> ToUint32(TableEntry(Shl(W(i), 24), 0))]

\* the byte TextEncoder gives for a character of the alphabet in use (ASCII)
CharCode(c) ==
    IF IndexOf(LowerCase, c) # 0 THEN 96 + IndexOf(LowerCase, c)
    ELSE IF IndexOf(UpperCase, c) # 0 THEN 64 + IndexOf(UpperCase, c)
    ELSE IF IndexOf(Digits, c) # 0 THEN 47 + IndexOf(Digits, c)
    ELSE IF c = "-" THEN 45
    ELSE IF c = "." THEN 46
    ELSE IF c = "_" THEN 95
    ELSE 32

\* a faulty variant of CrcStep: the table is indexed with the low byte of crc
CrcStep_lowByteIndex(crc, b) ==
    ToUint32(XorW(Shl(crc, 8), CRC_TABLE[AndW(XorW(crc, W(b)), LowByte)[2]]))

\* ((crc << 8) ^ CRC_TABLE[((crc >>> 24) ^ b) & 0xff]) >>> 0
CrcStep(crc, b) ==
    ToUint32(XorW(Shl(crc, 8), CRC_TABLE[AndW(XorW(Shr(crc, 24), W(b)), LowByte)[2]]))

\* lines 236-238: the loop over the bytes of the input, from position i on (the
\* second test never holds; with it TLC evaluates crc at every step)
RECURSIVE CrcBytes(_, _, _)
CrcBytes(crc, input, i) ==
    IF i > Len(input) \/ crc[2] < 0 THEN crc
    ELSE CrcBytes(CrcStep(crc, CharCode(SubSeq(input, i, i))), input, i + 1)

\* lines 241-245: the loop over the byte count
RECURSIVE CrcLength(_, _)
CrcLength(crc, len) ==
    IF len > 0 THEN CrcLength(CrcStep(crc, AndW(W(len), LowByte)[2]), len \div 256)
    ELSE crc

\* posixCksum(input): (~crc >>> 0)
posixCksum(input) ==
    ToUint32(NotW(CrcLength(CrcBytes(<<0, 0>>, input, 1), Len(input))))

\* hash % m for an unsigned word and 0 < m <= 65536
ModW(x, m) == (((x[1] % m) * (Half % m)) + x[2]) % m

\* a faulty variant of computeRemotePort: the remainder of the low 16 bits only
computeRemotePort_lowWord(subdomain) ==
    10000 + (posixCksum(subdomain)[2] % 50000)

\* computeRemotePort(subdomain): 10000 + (hash % 50000)
computeRemotePort(subdomain) == 10000 + ModW(posixCksum(subdomain), 50000)

\* ---- one call of posixCksum, step by step ----
\* the alphabet and the length up to which every input string is tried
CkAlphabet == {"a", "z", "0", "-"}
MaxCkLen == 2
RECURSIVE StringsUpTo(_)
StringsUpTo(n) ==
    IF n = 0 THEN {""}
    ELSE LET shorter == StringsUpTo(n - 1)
         IN  shorter \cup {s \o c : s \in shorter, c \in CkAlphabet}

\* s repeated n times
RECURSIVE Rep(_, _)
Rep(s, n) ==
    IF n = 0 THEN ""
    ELSE LET half == Rep(s, n \div 2)
         IN  IF n % 2 = 0 THEN half \o half ELSE half \o half \o s

\* further inputs: names ("app" derives a port above 50000), the usual CRC check
\* string, and inputs whose byte count takes one byte (255) and two bytes (256, 300)
CkLongInputs ==
    {"myapp", "app", "api-v2", "123456789", Rep("a", 255), Rep("a", 256), Rep("ab", 150)}
CkInputs == StringsUpTo(MaxCkLen) \cup CkLongInputs

\* the reference: a 32-bit shift register, most significant bit first, as a
\* sequence of bits; the generator polynomial by its exponents
PolyExps == {26, 23, 22, 16, 12, 11, 10, 8, 7, 5, 4, 2, 1, 0}
PolyBits == [i \in 1..32 |-> IF (32 - i) \in PolyExps THEN 1 ELSE 0]
ZeroBits == [i \in 1..32 |-> 0]
RefBit(reg, bit) ==
    LET shifted == [i \in 1..32 |-> IF i = 32 THEN 0 ELSE reg[i + 1]]
    IN  IF (reg[1] + bit) % 2 = 1
        THEN [i \in 1..32 |-> (shifted[i] + PolyBits[i]) % 2]
        ELSE shifted
\* the bits k, k-1, .., 0 of byte b shifted in, most significant first
RECURSIVE RefByte(_, _, _)
RefByte(reg, b, k) ==
    IF k < 0 THEN reg ELSE RefByte(RefBit(reg, (b \div Pow2(k)) % 2), b, k - 1)
RefNot(reg) == [i \in 1..32 |-> 1 - reg[i]]
\* the value of bits[from..to] read as a binary number
RECURSIVE BitsValue(_, _, _)
BitsValue(bits, from, to) ==
    IF to < from THEN 0 ELSE 2 * BitsValue(bits, from, to - 1) + bits[to]
WordOfBits(bits) == <<BitsValue(bits, 1, 16), BitsValue(bits, 17, 32)>>
\* the value of bits[1..to] modulo m
RECURSIVE BitsMod(_, _, _)
BitsMod(bits, to, m) ==
    IF to = 0 THEN 0 ELSE (2 * BitsMod(bits, to - 1, m) + bits[to]) % m

InitCksumIdle ==
    /\ ckIn = "" /\ ckPc = "bytes" /\ ckPos = 0 /\ ckLen = 0
    /\ ckCrc = <<0, 0>> /\ ckRef = ZeroBits /\ ckOut = <<>> /\ ckPorts = <<>>

\* posixCksum(input) entered: let crc = 0
InitCksum ==
    /\ ckIn \in CkInputs /\ ckPc = "bytes" /\ ckPos = 0 /\ ckLen = 0
    /\ ckCrc = <<0, 0>> /\ ckRef = ZeroBits /\ ckOut = <<>> /\ ckPorts = <<>>

\* one pass of `for (const b of bytes)`
CksumByte ==
    /\ ckPc = "bytes" /\ ckPos < Len(ckIn)
    /\ ckCrc' = CrcStep(ckCrc, CharCode(SubSeq(ckIn, ckPos + 1, ckPos + 1)))
    /\ ckRef' = RefByte(ckRef, CharCode(SubSeq(ckIn, ckPos + 1, ckPos + 1)), 7)
    /\ ckPos' = ckPos + 1
    /\ UNCHANGED <<ckIn, ckPc, ckLen, ckOut, ckPorts>>
    /\ UNCHANGED <<pvars, tvars, hvars, wvars, svars, stvars, rvars, cvars, lvars, cbvars>>

\* the byte loop is over: let len = bytes.length
CksumBytesDone ==
    /\ ckPc = "bytes" /\ ckPos = Len(ckIn)
    /\ ckPc' = "length"
    /\ ckLen' = Len(ckIn)
    /\ UNCHANGED <<ckIn, ckPos, ckCrc, ckRef, ckOut, ckPorts>>
    /\ UNCHANGED <<pvars, tvars, hvars, wvars, svars, stvars, rvars, cvars, lvars, cbvars>>

\* one pass of `while (len > 0)`
CksumLength ==
    /\ ckPc = "length" /\ ckLen > 0
    /\ ckCrc' = CrcStep(ckCrc, AndW(W(ckLen), LowByte)[2])
    /\ ckRef' = RefByte(ckRef, ckLen % 256, 7)
    /\ ckLen' = ckLen \div 256
    /\ UNCHANGED <<ckIn, ckPc, ckPos, ckOut, ckPorts>>
    /\ UNCHANGED <<pvars, tvars, hvars, wvars, svars, stvars, rvars, cvars, lvars, cbvars>>

\* return (~crc >>> 0)
CksumReturn ==
    /\ ckPc = "length" /\ ckLen = 0
    /\ ckPc' = "done"
    /\ ckOut' = <<ToUint32(NotW(ckCrc))>>
    /\ UNCHANGED <<ckIn, ckPos, ckLen, ckCrc, ckRef, ckPorts>>
    /\ UNCHANGED <<pvars, tvars, hvars, wvars, svars, stvars, rvars, cvars, lvars, cbvars>>

\* at most this many calls of computeRemotePort with the same subdomain
MaxCalls == 2

\* computeRemotePort(ckIn) for a valid subdomain, called once more with the same input
ComputePort ==
    /\ ckPc = "done" /\ SubdomainPattern(ckIn) /\ Len(ckPorts) < MaxCalls
    /\ ckPorts' = Append(ckPorts, computeRemotePort(ckIn))
    /\ UNCHANGED <<ckIn, ckPc, ckPos, ckLen, ckCrc, ckRef, ckOut>>
    /\ UNCHANGED <<pvars, tvars, hvars, wvars, svars, stvars, rvars, cvars, lvars, cbvars>>

(***************************************************************************)
(* stats.ts: StatsTracker                                                  *)
(*                                                                         *)
(* Date.now() is in milliseconds.  A duration (performance.now() - start,  *)
(* a fraction of milliseconds) is held in thousandths of a millisecond, so *)
(* 30 ms is 30000 and Math.round(x * 100) / 100 rounds to a multiple of 10.*)
(***************************************************************************)
\* a faulty variant of prune: the cutoff is one minute
prune_oneMinute(ds, t) ==
    LET Keep(d) == d.ts > t - 60 * 1000 IN SelectSeq(ds, Keep)

\* prune(): entries with ts > Date.now() - 5 * 60 * 1000 stay
prune(ds, t) ==
    LET Keep(d) == d.ts > t - 5 * 60 * 1000 IN SelectSeq(ds, Keep)

\* Array.prototype.sort((a, b) => a.ms - b.ms): ascending by ms, stable
RECURSIVE InsertByMs(_, _)
InsertByMs(d, sorted) ==
    IF sorted = <<>> THEN <<d>>
    ELSE IF d.ms < Head(sorted).ms THEN <<d>> \o sorted
    ELSE <<Head(sorted)>> \o InsertByMs(d, Tail(sorted))
RECURSIVE SortByMs(_)
SortByMs(ds) ==
    IF ds = <<>> THEN <<>>
    ELSE InsertByMs(ds[Len(ds)], SortByMs(SubSeq(ds, 1, Len(ds) - 1)))

\* Math.round(x * 100) / 100 for x >= 0 held in thousandths
Round2(x) == ((x + 5) \div 10) * 10

\* a faulty variant of Percentile: the index is Math.round(n * q), kept in range
Percentile_roundIndex(sorted, q10) ==
    IF Len(sorted) > 0
    THEN sorted[IF ((Len(sorted) * q10 + 5) \div 10) + 1 <= Len(sorted)
                THEN ((Len(sorted) * q10 + 5) \div 10) + 1 ELSE Len(sorted)].ms
    ELSE 0

\* sorted.length > 0 ? sorted[Math.floor(sorted.length * q)].ms : 0, for q = q10 / 10
\* (sequences are 1-based: index k of the array is element k + 1)
Percentile(sorted, q10) ==
    IF Len(sorted) > 0 THEN sorted[((Len(sorted) * q10) \div 10) + 1].ms ELSE 0

\* a faulty variant of get: the one-minute rate counts the whole window
get_rate1mAll(ds, t, open, count) ==
    [totalRequests |-> count,
     openConnections |-> open,
     rate1m |-> [num |-> Len(ds), den |-> 60],
     rate5m |-> [num |-> Len(ds), den |-> 300],
     p50Ms |-> Round2(Percentile(SortByMs(ds), 5)),
     p90Ms |-> Round2(Percentile(SortByMs(ds), 9))]

\* get(): the snapshot returned, given the window as prune() has left it
get(ds, t, open, count) ==
    LET In1m(d) == d.ts > t - 60000
        last1m == SelectSeq(ds, In1m)
        last5m == ds
        sorted == SortByMs(ds)
        p50 == Percentile(sorted, 5)
        p90 == Percentile(sorted, 9)
    IN  [totalRequests |-> count,
         openConnections |-> open,
         rate1m |-> [num |-> Len(last1m), den |-> 60],
         rate5m |-> [num |-> Len(last5m), den |-> 300],
         p50Ms |-> Round2(p50),
         p90Ms |-> Round2(p90)]

\* bounds of a run of the tracker
MaxRecords == 3
MaxStarts == 2
MaxCompletions == 3
MaxNow == 420000
\* the amounts of time that pass between two calls, and the request durations
TickSteps == {60000, 300000}
StatDurs == {12345}

\* new StatsTracker()
InitStats ==
    /\ now = 0 /\ durations = <<>> /\ inFlight = 0 /\ total = 0
    /\ started = 0 /\ completions = 0 /\ recorded = 0 /\ history = <<>> /\ snap = <<>>

\* environment: time passes
Tick(d) ==
    /\ now + d <= MaxNow
    /\ now' = now + d
    /\ UNCHANGED <<durations, inFlight, total, started, completions, recorded, history,
                   snap>>
    /\ UNCHANGED <<pvars, tvars, hvars, wvars, svars, ckvars, rvars, cvars, lvars, cbvars>>

\* a faulty variant of RecordRequest: the total is the size of the window
RecordRequest_windowTotal(ms) ==
    /\ recorded < MaxRecords
    /\ durations' = prune(Append(durations, [ts |-> now, ms |-> ms]), now)
    /\ total' = Len(durations')
    /\ recorded' = recorded + 1
    /\ history' = Append(history, [ts |-> now, ms |-> ms])
    /\ UNCHANGED <<now, inFlight, started, completions, snap>>
    /\ UNCHANGED <<pvars, tvars, hvars, wvars, svars, ckvars, rvars, cvars, lvars, cbvars>>

\* recordRequest(durationMs)
RecordRequest(ms) ==
    /\ recorded < MaxRecords
    /\ total' = total + 1
    /\ durations' = prune(Append(durations, [ts |-> now, ms |-> ms]), now)
    /\ recorded' = recorded + 1
    /\ history' = Append(history, [ts |-> now, ms |-> ms])
    /\ UNCHANGED <<now, inFlight, started, completions, snap>>
    /\ UNCHANGED <<pvars, tvars, hvars, wvars, svars, ckvars, rvars, cvars, lvars, cbvars>>

\* requestStart()
RequestStart ==
    /\ started < MaxStarts
    /\ inFlight' = inFlight + 1
    /\ started' = started + 1
    /\ UNCHANGED <<now, durations, total, completions, recorded, history, snap>>
    /\ UNCHANGED <<pvars, tvars, hvars, wvars, svars, ckvars, rvars, cvars, lvars, cbvars>>

\* a faulty variant of Complete: the counter is decremented without the floor
Complete_noFloor ==
    /\ started > 0 /\ completions < MaxCompletions
    /\ inFlight' = inFlight - 1
    /\ completions' = completions + 1
    /\ UNCHANGED <<now, durations, total, started, recorded, history, snap>>
    /\ UNCHANGED <<pvars, tvars, hvars, wvars, svars, ckvars, rvars, cvars, lvars, cbvars>>

\* a completion callback returned by requestStart is called; nothing keeps it
\* from being called a second time
Complete ==
    /\ started > 0 /\ completions < MaxCompletions
    /\ inFlight' = IF inFlight - 1 > 0 THEN inFlight - 1 ELSE 0
    /\ completions' = completions + 1
    /\ UNCHANGED <<now, durations, total, started, recorded, history, snap>>
    /\ UNCHANGED <<pvars, tvars, hvars, wvars, svars, ckvars, rvars, cvars, lvars, cbvars>>

\* get(): prune, then the snapshot
Get ==
    /\ durations' = prune(durations, now)
    /\ snap' = <<get(durations', now, inFlight, total)>>
    /\ UNCHANGED <<now, inFlight, total, started, completions, recorded, history>>
    /\ UNCHANGED <<pvars, tvars, hvars, wvars, svars, ckvars, rvars, cvars, lvars, cbvars>>

\* the tracker after n recordRequest calls within one millisecond, n <= MaxWindow
MaxWindow == 5
PercentileDurs == {10000, 20000, 30000, 40000, 50000, 12345}
RECURSIVE SeqsUpTo(_, _)
SeqsUpTo(S, n) ==
    IF n = 0 THEN {<<>>}
    ELSE LET shorter == SeqsUpTo(S, n - 1)
         IN  shorter \cup {Append(q, x) : q \in {r \in shorter : Len(r) = n - 1}, x \in S}
InitPercentile ==
    /\ now = 0 /\ inFlight = 0 /\ started = 0 /\ completions = 0 /\ snap = <<>>
    /\ \E ms \in SeqsUpTo(PercentileDurs, MaxWindow) :
          /\ durations = [i \in 1..Len(ms) |-> [ts |-> 0, ms |-> ms[i]]]
          /\ total = Len(ms) /\ recorded = Len(ms) /\ history = durations

(***************************************************************************)
(* tunnel.ts: spawnTunnel, the argument vector handed to Bun.spawn         *)
(***************************************************************************)
\* a faulty variant of spawnTunnel: the remote command is given the local port
spawnTunnel_commandPort(config, subdomain, targetPort) ==
    <<"ssh", "-T", "-o", "ServerAliveInterval=30", "-o", "ServerAliveCountMax=3",
      "-o", "ConnectTimeout=10", "-o", "LogLevel=ERROR">>
    \o (IF Truthy(config.sshKey) THEN <<"-i", config.sshKey[1]>> ELSE <<>>)
    \o <<"-R",
         NumStr(computeRemotePort(subdomain)) \o ":localhost:" \o NumStr(targetPort),
         config.user \o "@" \o config.host,
         "PYTHONUNBUFFERED=1 /usr/local/bin/pgrok-tunnel " \o subdomain \o " "
             \o NumStr(targetPort)>>

\* spawnTunnel(config, subdomain, targetPort): sshArgs as built in lines 270-296
spawnTunnel(config, subdomain, targetPort) ==
    LET remotePort == computeRemotePort(subdomain)
    IN  <<"ssh", "-T", "-o", "ServerAliveInterval=30", "-o", "ServerAliveCountMax=3",
          "-o", "ConnectTimeout=10", "-o", "LogLevel=ERROR">>
        \o (IF Truthy(config.sshKey) THEN <<"-i", config.sshKey[1]>> ELSE <<>>)
        \o <<"-R",
             NumStr(remotePort) \o ":localhost:" \o NumStr(targetPort),
             config.user \o "@" \o config.host,
             "PYTHONUNBUFFERED=1 /usr/local/bin/pgrok-tunnel " \o subdomain \o " "
                 \o NumStr(remotePort)>>

(***************************************************************************)
(* ui/requests.ts: createRequestsPanel, addRequest                         *)
(*                                                                         *)
(* scrollBox.content.getChildren() hands out a copy of the children in     *)
(* layout order and content.remove(id) takes the child with that id out.   *)
(***************************************************************************)
MAX_REQUESTS == 500

\* content.remove(id)
RemoveChild(content, id) == LET other(c) == c.id # id IN SelectSeq(content, other)

\* lines 134-140: while (children.length > MAX_REQUESTS) { shift; remove(first.id) }
RECURSIVE TrimOld(_, _)
TrimOld(children, content) ==
    IF Len(children) > MAX_REQUESTS
    THEN TrimOld(Tail(children), RemoveChild(content, Head(children).id))
    ELSE content

\* a faulty variant of addRequest: past the cap the newest line is the one let go
addRequest_dropNewest(content, counter, req) ==
    IF Len(content) >= MAX_REQUESTS THEN content
    ELSE Append(content, [id |-> counter + 1, req |-> req])

\* addRequest(req) with requestCounter = counter before the call: the children
\* of scrollBox.content after it
addRequest(content, counter, req) ==
    LET added == Append(content, [id |-> counter + 1, req |-> req])
    IN  TrimOld(added, added)

\* the panel as createRequestsPanel leaves it
InitLog == requestCounter = 0 /\ reqLog = <<>> /\ reqAdded = <<>>

\* the request records the panel is fed on its own, and how many
LogRequests == {[durationMs |-> 12000]}
MaxAdds == 503

\* one call of addRequest
AddRequest(req) ==
    /\ requestCounter < MaxAdds
    /\ requestCounter' = requestCounter + 1
    /\ reqLog' = addRequest(reqLog, requestCounter, req)
    /\ reqAdded' = Append(reqAdded, req)
    /\ UNCHANGED <<pvars, tvars, hvars, wvars, svars, stvars, ckvars, rvars, cvars, cbvars>>

(***************************************************************************)
(* index.ts: startup, the running session, cleanup                         *)
(***************************************************************************)
\* command lines tried
Argvs ==
    {<<"myapp", "3000">>, <<"MyApp", "8080", "--print-logs">>,
     <<Rep("a", 63), "65535">>, <<Rep("a", 64), "3000">>,
     <<"my_app", "3000">>, <<"-app", "3000">>, <<"app-", "3000">>,
     <<"myapp", "0">>, <<"myapp", "65536">>, <<"myapp", "abc">>, <<"myapp", "-1">>,
     <<"myapp", "3000abc">>, <<"--debug", "myapp", "99999">>,
     <<"myapp">>, <<"--help">>, <<"-v">>, <<>>}

\* contents of ~/.pgrok/config tried (<<>>: no such file)
CfgFiles ==
    {Null,
     Some(""),
     Some("PGROK_HOST=203.0.113.5\nPGROK_DOMAIN=example.com\n"),
     Some("# pgrok\n\n  PGROK_HOST = vps.example.com \nPGROK_DOMAIN=example.com\nPGROK_USER=me\nPGROK_SSH_KEY=~/.ssh/id_ed25519\n"),
     Some("PGROK_HOST=203.0.113.5\n"),
     Some("PGROK_DOMAIN=example.com\nPGROK_USER=me\n"),
     Some("PGROK_HOST=\nPGROK_DOMAIN=example.com\n"),
     Some("#PGROK_HOST=203.0.113.5\nPGROK_DOMAIN=example.com\nPGROK_HOST\n")}

\* the port the operating system hands out for `port: 0`
EphemeralPorts == {49152, 51234}

\* the request and the response used while a session runs
SessionRequest ==
    [method |-> "GET", path |-> "/a", search |-> "?q=1",
     headers |-> MkHeaders(<<<<"host", "myapp.example.com">>>>)]
SessionResponse ==
    [status |-> 200, statusText |-> "OK",
     headers |-> MkHeaders(<<<<"content-type", "text/html">>>>)]

\* the run before its first statement
InitSession ==
    /\ argv \in Argvs /\ cfgFile \in CfgFiles
    /\ spc = "start" /\ exitStatus = <<>> /\ printed = <<>> /\ session = <<>>
    /\ bound = 0 /\ spawned = 0
    /\ timerOn = FALSE /\ displayUp = FALSE /\ teardown = <<>>
    /\ probe = <<>> /\ listenPort = 0 /\ sshArgv = <<>> /\ connPanel = <<>>
    /\ callbacks = 0 /\ unheard = <<>>

\* a run that has come through startup with `pgrok myapp 3000`
InitRunning ==
    /\ argv = <<"myapp", "3000">>
    /\ cfgFile = Some("PGROK_HOST=203.0.113.5\nPGROK_DOMAIN=example.com\n")
    /\ spc = "running" /\ exitStatus = <<>> /\ printed = <<>>
    /\ session = <<[subdomain |-> "myapp", localPort |-> 3000, printLogs |-> FALSE,
                    config |-> [host |-> "203.0.113.5", domain |-> "example.com",
                                user |-> "pgrok", sshKey |-> Null],
                    proxyPort |-> 13000, remotePort |-> computeRemotePort("myapp")]>>
    /\ bound = 2 /\ spawned = 1
    /\ timerOn = TRUE /\ displayUp = TRUE /\ teardown = <<>>
    /\ probe = <<[free |-> TRUE, ephemeral |-> 0, taken |-> FALSE]>>
    /\ listenPort = 13000
    /\ sshArgv = spawnTunnel(session[1].config, "myapp", 13000)
    /\ connPanel = <<>>
    /\ callbacks = 1 /\ unheard = <<>>

\* lines 28-87: flags, argument validation, loadConfig; up to `await createApp()`
Startup(keyExists) ==
    /\ spc = "start"
    /\ LET args == argv
           printLogs == Includes(args, "--print-logs") \/ Includes(args, "--debug")
           pos == positionalArgs(args)
           help == Includes(args, "--help") \/ Includes(args, "-h")
           subdomain == Lower(pos[1])
           localPort == parseInt(pos[2])
           cfg == loadConfig(cfgFile, keyExists)
           Exit(code, stream, text) ==
               /\ spc' = "exited"
               /\ exitStatus' = <<code>>
               /\ printed' = Append(printed, <<stream, text>>)
               /\ UNCHANGED session
       IN  IF Includes(args, "--version") \/ Includes(args, "-v")
           THEN Exit(0, "stdout", "pgrok v" \o VERSION)
           ELSE IF help \/ Len(pos) < 2
           THEN Exit(IF help THEN 0 ELSE 1, "stdout", "pgrok v" \o VERSION \o " usage")
           ELSE IF ~SubdomainPattern(subdomain)
           THEN Exit(1, "stderr", "Error: Invalid subdomain '" \o subdomain
                         \o "'. Must be lowercase alphanumeric and hyphens, 1-63 characters.")
           ELSE IF localPort = Null \/ localPort[1] < 1 \/ localPort[1] > 65535
           THEN Exit(1, "stderr", "Error: Invalid port '" \o args[2] \o "'. Must be 1-65535.")
           ELSE IF cfg.threw
           THEN Exit(1, "stderr", "Error: " \o cfg.message)
           ELSE /\ spc' = "loaded"
                /\ session' = <<[subdomain |-> subdomain, localPort |-> localPort[1],
                                 printLogs |-> printLogs, config |-> cfg.config,
                                 proxyPort |-> 0, remotePort |-> 0]>>
                /\ UNCHANGED <<exitStatus, printed>>
    /\ UNCHANGED <<argv, cfgFile, bound, spawned, timerOn, displayUp, teardown,
                   probe, listenPort, sshArgv, connPanel>>
    /\ UNCHANGED <<pvars, tvars, hvars, wvars, stvars, ckvars, rvars, cvars, lvars, cbvars>>

\* `await createApp()` rejected (no usable terminal): the module's top-level await
\* fails and the run ends before anything else is started
AppFailed ==
    /\ spc = "loaded"
    /\ spc' = "exited"
    /\ exitStatus' = <<1>>
    /\ printed' = Append(printed, <<"stderr", "error: createApp failed">>)
    /\ UNCHANGED <<argv, cfgFile, session, bound, spawned, timerOn, displayUp, teardown,
                   probe, listenPort, sshArgv, connPanel>>
    /\ UNCHANGED <<pvars, tvars, hvars, wvars, stvars, ckvars, rvars, cvars, lvars, cbvars>>

\* lines 91-186, run in one turn once createApp has resolved: the first
\* session.update, findProxyPort, startProxy, spawnTunnel, the handlers, the timer.
\* The operating system decides three things: whether the preferred port can be
\* bound at the probe, which port it hands out for `port: 0`, and whether another
\* process has taken the probed port by the time startProxy binds it.  In that
\* last case Bun.serve throws inside startProxy, nothing catches it, and the run
\* ends there as an uncaught exception
StartSession(preferredFree, ephemeral, taken) ==
    /\ spc = "loaded"
    /\ displayUp' = TRUE
    /\ tunnelState' = initialTunnelState
    /\ panel' = tunnelState'
    /\ updates' = updates + 1
    /\ probe' = <<[free |-> preferredFree, ephemeral |-> ephemeral, taken |-> taken]>>
    /\ LET preferredPort == session[1].localPort + 10000
           proxyPort == IF preferredFree /\ preferredPort <= 65535
                        THEN preferredPort ELSE ephemeral
       IN  IF taken
           THEN /\ spc' = "exited"
                /\ exitStatus' = <<1>>
                /\ printed' = Append(printed, <<"stderr", "error: uncaught exception">>)
                /\ bound' = bound + 1
                /\ session' = <<[session[1] EXCEPT !.proxyPort = proxyPort]>>
                /\ UNCHANGED <<listening, listenPort, spawned, proc, sshArgv, timerOn,
                               callbacks>>
           ELSE /\ spc' = "running"
                /\ session' = <<[session[1] EXCEPT
                                    !.proxyPort = proxyPort,
                                    !.remotePort = computeRemotePort(session[1].subdomain)]>>
                /\ bound' = bound + 2
                /\ listening' = TRUE
                /\ listenPort' = proxyPort
                /\ spawned' = spawned + 1
                /\ proc' = "running"
                /\ sshArgv' = spawnTunnel(session[1].config, session[1].subdomain, proxyPort)
                /\ callbacks' = onLine(0)
                /\ timerOn' = TRUE
                /\ UNCHANGED <<exitStatus, printed>>
    /\ UNCHANGED <<argv, cfgFile, teardown, connPanel>>
    /\ UNCHANGED <<exitCode, exitSeen, outPipe, errPipe, written, delivered, events>>
    /\ UNCHANGED <<hpc, inbound, forwarded, upstreamResp, response, records, failsBefore>>
    /\ UNCHANGED <<pvars, wvars, stvars, ckvars, rvars, cvars, lvars>>
    /\ UNCHANGED unheard

\* stats.recordRequest for each duration of mss in turn, at time t
RECURSIVE RecordAll(_, _, _)
RecordAll(ds, mss, t) ==
    IF mss = <<>> THEN ds
    ELSE RecordAll(prune(Append(ds, [ts |-> t, ms |-> Head(mss)]), t), Tail(mss), t)

\* requests.addRequest for each request of reqs in turn
RECURSIVE AddAll(_, _, _)
AddAll(content, counter, reqs) ==
    IF reqs = <<>> THEN content
    ELSE AddAll(addRequest(content, counter, Head(reqs)), counter + 1, Tail(reqs))

\* a faulty variant of OnRequests: the tracker is fed, the log is not
OnRequests_notLogged(mss) ==
    /\ UNCHANGED <<requestCounter, reqLog, reqAdded>>
    /\ total' = total + Len(mss)
    /\ durations' = RecordAll(durations, mss, now)
    /\ recorded' = recorded + Len(mss)
    /\ history' = history \o [i \in 1..Len(mss) |-> [ts |-> now, ms |-> mss[i]]]
    /\ IF mss = <<>> THEN UNCHANGED <<snap, connPanel>>
       ELSE /\ snap' = <<get(durations', now, inFlight, total')>>
            /\ connPanel' = snap'
    /\ UNCHANGED <<now, inFlight, started, completions>>

\* the onRequest callback of index.ts, lines 105-109, called once for each record
\* the proxy emits while it handles one event: stats.recordRequest,
\* requests.addRequest, then connections.update(stats.get()); mss are the
\* durations the proxy measured, one for each record
OnRequests(mss) ==
    /\ requestCounter' = requestCounter + Len(mss)
    /\ reqLog' = AddAll(reqLog, requestCounter, [i \in 1..Len(mss) |-> [durationMs |-> mss[i]]])
    /\ reqAdded' = reqAdded \o [i \in 1..Len(mss) |-> [durationMs |-> mss[i]]]
    /\ total' = total + Len(mss)
    /\ durations' = RecordAll(durations, mss, now)
    /\ recorded' = recorded + Len(mss)
    /\ history' = history \o [i \in 1..Len(mss) |-> [ts |-> now, ms |-> mss[i]]]
    /\ IF mss = <<>> THEN UNCHANGED <<snap, connPanel>>
       ELSE /\ snap' = <<get(durations', now, inFlight, total')>>
            /\ connPanel' = snap'
    /\ UNCHANGED <<now, inFlight, started, completions>>

\* the callback called once
OnRequest(ms) == OnRequests(<<ms>>)

\* the proxy of a running session taking requests on both slots.  A request whose
\* headers cannot be stripped is answered 502 and recorded at once; a response
\* whose headers cannot be stripped is recorded with its own status and then,
\* from the catch block, once more as 502
RequestInputs ==
    {SessionRequest,
     [method |-> "GET", path |-> "/a", search |-> "?q=1",
      headers |-> MkHeaders(<<<<"host", "myapp.example.com">>,
                              <<"connection", "keep-alive, ">>>>)]}
RequestReceive(r, req, ms) ==
    /\ spc = "running"
    /\ Receive(r, req)
    /\ OnRequests(IF stripHopByHop(req.headers).threw THEN <<ms>> ELSE <<>>)
    /\ UNCHANGED <<argv, cfgFile, spc, exitStatus, printed, session, bound, spawned,
                   timerOn, displayUp, teardown, probe, listenPort, sshArgv>>
    /\ UNCHANGED <<pvars, tvars, wvars, ckvars, rvars, cvars, cbvars>>
RequestOk(r, resp, ms) ==
    /\ spc = "running"
    /\ ForwardOk(r, resp)
    /\ OnRequests(IF stripHopByHop(resp.headers).threw THEN <<ms, ms>> ELSE <<ms>>)
    /\ UNCHANGED <<argv, cfgFile, spc, exitStatus, printed, session, bound, spawned,
                   timerOn, displayUp, teardown, probe, listenPort, sshArgv>>
    /\ UNCHANGED <<pvars, tvars, wvars, ckvars, rvars, cvars, cbvars>>
RequestFail(r, ms) ==
    /\ spc = "running"
    /\ ForwardFail(r)
    /\ OnRequests(<<ms>>)
    /\ UNCHANGED <<argv, cfgFile, spc, exitStatus, printed, session, bound, spawned,
                   timerOn, displayUp, teardown, probe, listenPort, sshArgv>>
    /\ UNCHANGED <<pvars, tvars, wvars, ckvars, rvars, cvars, cbvars>>

\* the handlers of a running session: they run only while the process lives
SessionProcExit(code) == spc = "running" /\ ProcExit(code)
SessionExited == spc = "running" /\ ExitedHandler
SessionHttpReceive == spc = "running" /\ HttpReceive("r1", SessionRequest)
SessionHttpOk(ms) ==
    /\ spc = "running"
    /\ ForwardOk("r1", SessionResponse)
    /\ OnRequest(ms)
    /\ UNCHANGED <<argv, cfgFile, spc, exitStatus, printed, session, bound, spawned,
                   timerOn, displayUp, teardown, probe, listenPort, sshArgv>>
    /\ UNCHANGED <<pvars, tvars, wvars, ckvars, rvars, cvars, cbvars>>
SessionHttpFail(ms) ==
    /\ spc = "running"
    /\ ForwardFail("r1")
    /\ OnRequest(ms)
    /\ UNCHANGED <<argv, cfgFile, spc, exitStatus, printed, session, bound, spawned,
                   timerOn, displayUp, teardown, probe, listenPort, sshArgv>>
    /\ UNCHANGED <<pvars, tvars, wvars, ckvars, rvars, cvars, cbvars>>

\* the setInterval callback, lines 138-140, as it runs d milliseconds after the
\* previous step: connections.update(stats.get())
StatsInterval(d) ==
    /\ spc = "running" /\ timerOn
    /\ now + d <= MaxNow
    /\ now' = now + d
    /\ durations' = prune(durations, now')
    /\ snap' = <<get(durations', now', inFlight, total)>>
    /\ connPanel' = snap'
    /\ UNCHANGED <<inFlight, total, started, completions, recorded, history>>
    /\ UNCHANGED <<argv, cfgFile, spc, exitStatus, printed, session, bound, spawned,
                   timerOn, displayUp, teardown, probe, listenPort, sshArgv>>
    /\ UNCHANGED <<pvars, tvars, hvars, wvars, ckvars, rvars, cvars, lvars, cbvars>>

\* a faulty variant of Cleanup: the display is released first and the timer is
\* stopped last
Cleanup_timerLast(stopThrows, destroyThrows, writeThrows) ==
    /\ spc = "running"
    /\ spc' = "exited"
    /\ timerOn' = FALSE
    /\ proc' = IF proc = "running" THEN "killed" ELSE proc
    /\ listening' = FALSE
    /\ displayUp' = FALSE
    /\ teardown' = <<"display", "kill", "proxy", "timer">>
    /\ printed' = printed
    /\ exitStatus' = <<0>>
    /\ UNCHANGED <<argv, cfgFile, session, bound, spawned, probe, listenPort, sshArgv,
                   connPanel>>
    /\ UNCHANGED <<tunnelState, panel, updates, exitCode, exitSeen, outPipe, errPipe,
                   written, delivered, events>>
    /\ UNCHANGED <<hpc, inbound, forwarded, upstreamResp, response, records, failsBefore>>
    /\ UNCHANGED <<pvars, wvars, stvars, ckvars, rvars, cvars, lvars, cbvars>>

\* cleanup(), on Ctrl+C, SIGINT or SIGTERM.  tunnel.kill() catches what proc.kill()
\* throws; proxy.stop(), app.destroy() and writeFileSync are called bare, so a throw
\* of one of them leaves cleanup at that statement and ends the run as an
\* uncaught exception
Cleanup(stopThrows, destroyThrows, writeThrows) ==
    /\ spc = "running"
    /\ spc' = "exited"
    /\ timerOn' = FALSE
    /\ proc' = IF proc = "running" THEN "killed" ELSE proc
    /\ listening' = IF stopThrows THEN listening ELSE FALSE
    /\ displayUp' = IF stopThrows \/ destroyThrows THEN displayUp ELSE FALSE
    /\ teardown' = IF stopThrows THEN <<"timer", "kill", "proxy">>
                   ELSE <<"timer", "kill", "proxy", "display">>
    /\ LET torn == ~stopThrows /\ ~destroyThrows
           logs == torn /\ session[1].printLogs
       IN  /\ printed' =
                  IF ~torn \/ (logs /\ writeThrows)
                  THEN Append(printed, <<"stderr", "error: uncaught exception">>)
                  ELSE IF logs
                  THEN printed \o <<<<"stdout", "--- pgrok debug logs ---">>,
                                    <<"stderr", "Debug logs written to: pgrok-debug.log">>>>
                  ELSE printed
           /\ exitStatus' = IF ~torn \/ (logs /\ writeThrows) THEN <<1>> ELSE <<0>>
    /\ UNCHANGED <<argv, cfgFile, session, bound, spawned, probe, listenPort, sshArgv,
                   connPanel>>
    /\ UNCHANGED <<tunnelState, panel, updates, exitCode, exitSeen, outPipe, errPipe,
                   written, delivered, events>>
    /\ UNCHANGED <<hpc, inbound, forwarded, upstreamResp, response, records, failsBefore>>
    /\ UNCHANGED <<pvars, wvars, stvars, ckvars, rvars, cvars, lvars, cbvars>>

(***************************************************************************)
(* config.ts: loadConfig called on a drawn ~/.pgrok/config                 *)
(***************************************************************************)
\* the lines a configuration file is written with, and the most lines tried
CfgLineChoices ==
    {"PGROK_HOST=203.0.113.5", "PGROK_DOMAIN=example.com", "PGROK_HOST=",
     "# PGROK_DOMAIN=example.org", "", "PGROK_DOMAIN", " PGROK_USER = me ",
     "PGROK_USER=", "PGROK_SSH_KEY=~/.ssh/id_ed25519", "PGROK_SSH_KEY=/etc/pgrok/key"}
MaxCfgLines == 3

\* the text of a file written with these lines
RECURSIVE JoinLines(_)
JoinLines(ls) ==
    IF ls = <<>> THEN ""
    ELSE IF Len(ls) = 1 THEN ls[1]
    ELSE Head(ls) \o "\n" \o JoinLines(Tail(ls))

InitConfigIdle ==
    /\ cfgLines = <<>> /\ cfgIn = Null /\ cfgKeyExists = FALSE /\ cfgOut = <<>>

\* before loadConfig() is called: the file is there or not, the key file likewise
InitConfig ==
    /\ cfgLines \in SeqsUpTo(CfgLineChoices, MaxCfgLines)
    /\ cfgIn \in {Some(JoinLines(cfgLines))} \cup (IF cfgLines = <<>> THEN {Null} ELSE {})
    /\ cfgKeyExists \in BOOLEAN
    /\ cfgOut = <<>>

\* the call of loadConfig()
LoadConfig ==
    /\ cfgOut = <<>>
    /\ cfgOut' = <<loadConfig(cfgIn, cfgKeyExists)>>
    /\ UNCHANGED <<cfgLines, cfgIn, cfgKeyExists>>
    /\ UNCHANGED <<pvars, tvars, hvars, wvars, svars, stvars, ckvars, rvars, lvars, cbvars>>

(***************************************************************************)
(* Specifications                                                          *)
(***************************************************************************)
\* the other components at rest, beside the one a specification is about
InitRest == InitRunning /\ InitStats /\ InitCksumIdle /\ InitReadIdle /\ InitConfigIdle /\ InitLog
InitIdle == IdleParse /\ InitTunnel /\ InitHttp /\ InitWs /\ InitRest

\* parseTunnelMessage applied once to every drawn (line, state)
InitP == InitParse /\ InitTunnel /\ InitHttp /\ InitWs /\ InitRest
NextParse == ApplyParse
SpecParse == InitP /\ [][NextParse]_vars

\* the orchestrator with the control-channel process
NextTunnel ==
    \/ \E l \in ProcLines : ProcWriteOut(l)
    \/ \E l \in ProcLines : ProcWriteErr(l)
    \/ \E code \in ExitCodes : ProcExit(code)
    \/ ReadStdout
    \/ ReadStderr
    \/ ExitedHandler
SpecTunnel == InitIdle /\ [][NextTunnel]_vars

\* the proxy's fetch handler: regular requests and upgrade requests
NextHttp ==
    \/ \E r \in Reqs, req \in InboundRequests : HttpReceive(r, req)
    \/ \E r \in Reqs, resp \in UpstreamResponses : HttpForwardOk(r, resp)
    \/ \E r \in Reqs : HttpForwardFail(r)
    \/ \E c \in Conns, req \in UpgradeRequests, ok \in BOOLEAN : FetchUpgrade(c, req, ok)
SpecHttp == InitIdle /\ [][NextHttp]_vars

\* the proxy's WebSocket relay
NextWs ==
    \/ \E c \in Conns, req \in UpgradeRequests, ok \in BOOLEAN : FetchUpgrade(c, req, ok)
    \/ \E c \in Conns : WsOpen(c)
    \/ \E c \in Conns : WsMessage(c)
    \/ \E c \in Conns, n \in 0..MaxMsgs : UpstreamOpen(c, n)
    \/ \E c \in Conns, cr \in UpCloses : UpstreamPeerClose(c, cr)
    \/ \E c \in Conns : UpstreamCloseEvent(c)
    \/ \E c \in Conns : UpstreamError(c)
    \/ \E c \in Conns, cr \in DownCloses : WsClose(c, cr)
SpecWs == InitIdle /\ [][NextWs]_vars

\* the relay with the event loop dispatching every pending upstream close event
FairSpecWs == SpecWs /\ \A c \in Conns : WF_vars(UpstreamCloseEvent(c))

\* one run of index.ts from the command line on: nothing is spawned or bound yet
InitRun ==
    /\ InitSession /\ IdleParse /\ InitWs /\ InitStats /\ InitCksumIdle /\ InitReadIdle /\ InitConfigIdle /\ InitLog
    /\ tunnelState = initialTunnelState /\ panel = initialTunnelState /\ updates = 0
    /\ proc = "none" /\ exitCode = 0 /\ exitSeen = FALSE
    /\ outPipe = <<>> /\ errPipe = <<>> /\ written = 0
    /\ delivered = <<>> /\ events = <<>>
    /\ hpc = [r \in Reqs |-> "idle"]
    /\ inbound = [r \in Reqs |-> <<>>]
    /\ forwarded = [r \in Reqs |-> <<>>]
    /\ upstreamResp = [r \in Reqs |-> <<>>]
    /\ response = [r \in Reqs |-> <<>>]
    /\ records = <<>>
    /\ failsBefore = [r \in Reqs |-> 0]
    /\ listening = FALSE
NextSession ==
    \/ \E keyExists \in BOOLEAN : Startup(keyExists)
    \/ AppFailed
    \/ \E free, taken \in BOOLEAN, e \in EphemeralPorts : StartSession(free, e, taken)
    \/ \E code \in ExitCodes : SessionProcExit(code)
    \/ SessionExited
    \/ SessionHttpReceive
    \/ \E ms \in StatDurs : SessionHttpOk(ms)
    \/ \E ms \in StatDurs : SessionHttpFail(ms)
    \/ \E d \in TickSteps : StatsInterval(d)
    \/ \E st, de, wr \in BOOLEAN : Cleanup(st, de, wr)
SpecSession == InitRun /\ [][NextSession]_vars

\* one run of `pgrok myapp 3000` from the command line up to the running
\* session, then the process writing, the two readers and the exit
InitSpawn ==
    /\ InitRun
    /\ argv = <<"myapp", "3000">>
    /\ cfgFile = Some("PGROK_HOST=203.0.113.5\nPGROK_DOMAIN=example.com\n")
NextSpawn ==
    \/ \E keyExists \in BOOLEAN : Startup(keyExists)
    \/ AppFailed
    \/ \E free, taken \in BOOLEAN, e \in EphemeralPorts : StartSession(free, e, taken)
    \/ \E l \in ProcLines : spc = "running" /\ ProcWriteOut(l)
    \/ \E l \in ProcLines : spc = "running" /\ ProcWriteErr(l)
    \/ \E code \in ExitCodes : SessionProcExit(code)
    \/ spc = "running" /\ ReadStdout
    \/ spc = "running" /\ ReadStderr
    \/ SessionExited
SpecSpawn == InitSpawn /\ [][NextSpawn]_vars

\* the running session's proxy, tracker, log and panel under HTTP requests
NextRequests ==
    \/ \E r \in Reqs, req \in RequestInputs, ms \in StatDurs : RequestReceive(r, req, ms)
    \/ \E r \in Reqs, resp \in UpstreamResponses, ms \in StatDurs : RequestOk(r, resp, ms)
    \/ \E r \in Reqs, ms \in StatDurs : RequestFail(r, ms)
    \/ \E d \in TickSteps : StatsInterval(d)
SpecRequests == InitIdle /\ [][NextRequests]_vars

\* the statistics tracker under calls in any order, with time passing
NextStats ==
    \/ \E d \in TickSteps : Tick(d)
    \/ \E ms \in StatDurs : RecordRequest(ms)
    \/ RequestStart
    \/ Complete
    \/ Get
SpecStats == InitIdle /\ [][NextStats]_vars

\* get() applied to every drawn window
InitPct ==
    /\ IdleParse /\ InitTunnel /\ InitHttp /\ InitWs /\ InitRunning /\ InitCksumIdle
    /\ InitReadIdle /\ InitConfigIdle /\ InitLog /\ InitPercentile
NextPercentile == Get
SpecPercentile == InitPct /\ [][NextPercentile]_vars

\* posixCksum and computeRemotePort applied to every drawn input
InitCk ==
    /\ IdleParse /\ InitTunnel /\ InitHttp /\ InitWs /\ InitRunning /\ InitStats
    /\ InitReadIdle /\ InitConfigIdle /\ InitLog /\ InitCksum
NextCksum ==
    \/ CksumByte
    \/ CksumBytesDone
    \/ CksumLength
    \/ CksumReturn
    \/ ComputePort
SpecCksum == InitCk /\ [][NextCksum]_vars

\* readStream on every drawn stream, read in chunks of every size
InitRs ==
    /\ IdleParse /\ InitTunnel /\ InitHttp /\ InitWs /\ InitRunning /\ InitStats
    /\ InitCksumIdle /\ InitRead /\ InitConfigIdle /\ InitLog
NextRead ==
    \/ \E n \in 1..MaxStream : ReadChunk(n)
    \/ ReadEnd
    \/ ReadFail
SpecRead == InitRs /\ [][NextRead]_vars

\* loadConfig called once on every drawn file
InitCf ==
    /\ IdleParse /\ InitTunnel /\ InitHttp /\ InitWs /\ InitRunning /\ InitStats
    /\ InitCksumIdle /\ InitReadIdle /\ InitConfig /\ InitLog
NextConfig == LoadConfig
SpecConfig == InitCf /\ [][NextConfig]_vars

\* the request log fed one request after another
NextLog == \E req \in LogRequests : AddRequest(req)
SpecLog == InitIdle /\ [][NextLog]_vars

(***************************************************************************)
(* Claims about the tunnel state machine                                   *)
(***************************************************************************)
\* the five recognised line patterns of the transition table
Recognised(line) ==
    \/ StartsWith(line, "Provisioning TLS certificate")
    \/ line = "TLS certificate ready."
    \/ StartsWith(line, "Warning: TLS certificate not yet ready")
    \/ StartsWith(line, "pgrok tunnel active:")
    \/ StartsWith(line, "Error:")

\* the left fold of parseTunnelMessage over a sequence of lines
RECURSIVE FoldLines(_, _)
FoldLines(ls, st) ==
    IF ls = <<>> THEN st ELSE FoldLines(Tail(ls), parseTunnelMessage(Head(ls), st))

\* the fold over handled events: a line applies parseTunnelMessage, the exit event
\* sets status=error and the exit-code message
RECURSIVE FoldEvents(_, _)
FoldEvents(es, st) ==
    IF es = <<>> THEN st
    ELSE FoldEvents(Tail(es),
                    IF Head(es)[1] = "line"
                    THEN parseTunnelMessage(Head(es)[2], st)
                    ELSE [st EXCEPT !.status = "error",
                                    !.error = Some("SSH connection lost (exit code "
                                                   \o NumStr(Head(es)[2]) \o ")")])

\* C2 (as claimed): the exit handler sets status=error with the exit-code message,
\* and once the exit has been observed no later step changes the TunnelState.
C2_ExitIsTerminal ==
    [][/\ (~exitSeen /\ exitSeen') =>
            /\ tunnelState'.status = "error"
            /\ tunnelState'.error =
                   Some("SSH connection lost (exit code " \o NumStr(exitCode) \o ")")
       /\ exitSeen => tunnelState' = tunnelState]_vars

\* C3 (as claimed): in every state the TunnelState is the left fold of
\* parseTunnelMessage over the delivered lines, from the initial state.
C3_StateIsFoldOfLines == tunnelState = FoldLines(delivered, initialTunnelState)

\* C3 (amended): until the exit is observed the TunnelState is the fold of
\* parseTunnelMessage over the delivered lines; in every state it is the fold over
\* the handled events (lines and the exit) in order; every handled event causes
\* exactly one transition and one republish of the current state to the panel.
C3_StateIsFoldOfEvents ==
    /\ ~exitSeen => tunnelState = FoldLines(delivered, initialTunnelState)
    /\ tunnelState = FoldEvents(events, initialTunnelState)
    /\ panel = tunnelState
    /\ updates = 1 + Len(events)
    /\ Len(events) = Len(delivered) + (IF exitSeen THEN 1 ELSE 0)

\* C3 witness: lines from both streams and the exit have been handled, and a line
\* was handled after the exit
C3_Witness ==
    /\ exitSeen
    /\ Len(delivered) >= 2
    /\ events[Len(events)][1] = "line"
    /\ tunnelState.status = "online"

\* C4: a line matching none of the five patterns leaves all four fields as they
\* were, and the call leaves its argument state as it was.
C4_UnrecognisedIsIdentity ==
    (pOut # <<>> /\ ~Recognised(pLine)) =>
        /\ pOut[1].status = pState.status
        /\ pOut[1].url = pState.url
        /\ pOut[1].certStatus = pState.certStatus
        /\ pOut[1].error = pState.error

\* C4 witness: an unrecognised line was applied to a state that is not the initial one
C4_Witness ==
    /\ pOut # <<>> /\ ~Recognised(pLine)
    /\ pLine = "pgrok tunnel active https://x.example.com"
    /\ pState.certStatus = "ready" /\ pState.status = "online"

\* C5 (as claimed): a line beginning "pgrok tunnel active:" yields status=online and
\* url = the part of the line after the marker, trimmed; certStatus and error unchanged.
C5_ActiveSetsUrlToSuffix ==
    (pOut # <<>> /\ StartsWith(pLine, "pgrok tunnel active:")) =>
        /\ pOut[1].status = "online"
        /\ pOut[1].url =
               Some(Trim(SubSeq(pLine, Len("pgrok tunnel active:") + 1, Len(pLine))))
        /\ pOut[1].certStatus = pState.certStatus
        /\ pOut[1].error = pState.error

(***************************************************************************)
(* Claims about the local reverse proxy                                    *)
(***************************************************************************)
\* the k-th .. n-th downstream messages in arrival order
ArrivalPrefix(n) == [k \in 1..n |-> DownMsg(k)]

\* C1: nothing is handed to the upstream before its 'open' listener has run; what
\* has been handed over is always the first messages in arrival order (so queued
\* messages go out in arrival order and before every later message); and while
\* the upstream is open every message that arrived has been handed over.
C1_QueuedThenFifo ==
    \A c \in Conns :
        /\ ~ready[c] => upSent[c] = <<>>
        /\ Len(upSent[c]) <= arrived[c]
        /\ upSent[c] = ArrivalPrefix(Len(upSent[c]))
        /\ (ready[c] /\ upRS[c] = "OPEN") => (queue[c] = <<>> /\ Len(upSent[c]) = arrived[c])

\* C1 witness: two messages arrived before 'open', one after, all three handed
\* over in arrival order
C1_Witness ==
    \E c \in Conns :
        /\ preOpen[c] = 2 /\ arrived[c] = 3
        /\ upSent[c] = <<DownMsg(1), DownMsg(2), DownMsg(3)>>

RecordsOf(r) == {i \in 1..Len(records) : records[i].req = r}

\* C6 (as claimed): every non-upgrade request that has been handled has exactly one
\* record, a request still in flight has none, and upgrade requests have none.
C6_OneRecordPerRequest ==
    /\ \A r \in Reqs : Cardinality(RecordsOf(r)) = (IF hpc[r] = "done" THEN 1 ELSE 0)
    /\ Len(records) = Cardinality({r \in Reqs : hpc[r] = "done"})

\* a request whose forwarding failed: handled, and fetch() gave no response
ForwardFailed(r) == hpc[r] = "done" /\ upstreamResp[r] = <<>>

\* C7: a request whose forwarding failed is answered 502 with a plain-text body and
\* has exactly one record, with statusCode 502; the listener stays up.
C7_FailureIs502 ==
    /\ listening
    /\ \A r \in Reqs :
          ForwardFailed(r) =>
              /\ response[r] # <<>>
              /\ response[r][1].status = 502
              /\ response[r][1].headers = MkHeaders(<<<<"content-type", "text/plain">>>>)
              /\ Cardinality(RecordsOf(r)) = 1
              /\ \A i \in RecordsOf(r) : records[i].statusCode = 502

\* C7 witness: fetch() was rejected for one request, and a request received after
\* that failure was forwarded and answered 200
C7_Witness ==
    \E r1, r2 \in Reqs :
        /\ ForwardFailed(r1) /\ forwarded[r1] # <<>>
        /\ failsBefore[r2] >= 1 /\ hpc[r2] = "done"
        /\ response[r2][1].status = 200

\* the lower-cased header names listed in the inbound Connection value of request r
ListedInConnection(r) ==
    IF "connection" \in DOMAIN inbound[r][1].headers
    THEN {Lower(x) : x \in ConnectionNames(inbound[r][1].headers["connection"])}
    ELSE {}

\* the headers the proxy sets itself after stripping
ProxySetHeaders ==
    {"host", "x-forwarded-for", "x-forwarded-proto", "x-forwarded-host",
     "x-forwarded-port"}

\* C8 (as claimed): the headers handed to fetch() hold no hop-by-hop header and no
\* header named in the inbound Connection value, whatever it names.
C8_NoHopByHopNoListed ==
    \A r \in Reqs :
        forwarded[r] # <<>> =>
            (DOMAIN forwarded[r][1]) \cap (HOP_BY_HOP_HEADERS \cup ListedInConnection(r)) = {}

\* C8 (amended): the headers handed to fetch() hold no hop-by-hop header and no
\* header named in the inbound Connection value other than the five the proxy sets
\* itself after stripping, which are always present.
C8_NoHopByHopNoListedButProxySet ==
    \A r \in Reqs :
        forwarded[r] # <<>> =>
            /\ (DOMAIN forwarded[r][1])
                   \cap (HOP_BY_HOP_HEADERS \cup (ListedInConnection(r) \ ProxySetHeaders)) = {}
            /\ ProxySetHeaders \subseteq DOMAIN forwarded[r][1]

\* C8 witness: a forwarded request whose Connection value named X-Custom, sent
\* along with X-Custom and TE
C8_Witness ==
    \E r \in Reqs :
        /\ forwarded[r] # <<>>
        /\ "x-custom" \in ListedInConnection(r)
        /\ {"x-custom", "te", "connection"} \subseteq DOMAIN inbound[r][1].headers

\* C9 (as claimed): the upstream connection is opened with the captured path and
\* query, the captured forwarded headers and the subprotocols; none is opened
\* when the upgrade failed.
C9_UpstreamUsesCaptured ==
    \A c \in Conns :
        /\ wpc[c] = "rejected" => upReq[c] = <<>>
        /\ upReq[c] # <<>> =>
              /\ wsData[c] # <<>>
              /\ upReq[c][1].url =
                     "ws://" \o TargetHost \o wsData[c][1].path \o wsData[c][1].search
              /\ upReq[c][1].protocols = wsData[c][1].protocols
              /\ upReq[c][1].headers = Some(wsData[c][1].headers)

UpClosed(c) == upRS[c] \in {"CLOSING", "FAILED", "CLOSED"}

\* C10: a downstream close closes the upstream with the downstream's code and
\* reason; an upstream close event closes the downstream with the event's code and
\* reason; an upstream error closes it with 1011; and once one side has closed
\* the other side is eventually closed.
C10_ClosePropagates ==
    /\ [](\A c \in Conns :
            /\ wpc[c] = "closed" => UpClosed(c)
            /\ upCloseArgs[c] # <<>> => upCloseArgs[c] = downPeerClose[c]
            /\ downClose[c] # <<>> =>
                   downClose[c] \in {upEvt[c], <<1011, "upstream error">>}
            /\ (upRS[c] = "FAILED" /\ downPeerClose[c] = <<>>) =>
                   downClose[c] = <<1011, "upstream error">>
            /\ upRS[c] = "CLOSED" => wpc[c] = "closed")
    /\ \A c \in Conns : UpClosed(c) ~> (wpc[c] = "closed")
    /\ \A c \in Conns : (wpc[c] = "closed") ~> UpClosed(c)

\* C10 witness: the upstream peer closed with its code, the close event was
\* handled, and the downstream socket was closed with that code and reason
C10_Witness ==
    \E c \in Conns :
        /\ upRS[c] = "CLOSED" /\ wpc[c] = "closed"
        /\ upEvt[c] \in UpCloses /\ downClose[c] = upEvt[c]

(***************************************************************************)
(* Claims about startup and shutdown                                       *)
(***************************************************************************)
TeardownSteps == <<"timer", "kill", "proxy", "display">>

\* C11 (as claimed): once shutdown has begun and the process is gone, every
\* teardown step has been attempted, in order, whichever of them threw.
C11_EveryStepAttempted ==
    (spc = "exited" /\ teardown # <<>>) =>
        /\ teardown = TeardownSteps
        /\ exitStatus # <<>>

\* a port argument in the documented format: decimal digits only, value 1..65535
ValidPortArg(a) ==
    /\ Len(a) >= 1
    /\ \A i \in 1..Len(a) : IsDigit(SubSeq(a, i, i))
    /\ DigitsValue(a) >= 1 /\ DigitsValue(a) <= 65535

\* a subdomain argument: lowercase letters, digits and hyphens once lower-cased,
\* 1 to 63 characters, no hyphen at either end
ValidSubdomainArg(a) ==
    /\ Len(a) >= 1 /\ Len(a) <= 63
    /\ \A i \in 1..Len(a) : IsAlnum(SubSeq(Lower(a), i, i)) \/ SubSeq(a, i, i) = "-"
    /\ SubSeq(a, 1, 1) # "-" /\ SubSeq(a, Len(a), Len(a)) # "-"

\* the configuration file gives key a non-empty value on some line
ConfigGives(key) ==
    /\ cfgFile # Null
    /\ \E i \in 1..Len(Split(cfgFile[1], "\n")) :
          LET l == Trim(Split(cfgFile[1], "\n")[i])
          IN  /\ ~StartsWith(l, "#")
              /\ IndexOf(l, "=") # 0
              /\ Trim(SubSeq(l, 1, IndexOf(l, "=") - 1)) = key
              /\ Trim(SubSeq(l, IndexOf(l, "=") + 1, Len(l))) # ""

\* the run was given both arguments and no --version / --help flag, and either an
\* argument is invalid or the configuration is missing or lacks a required key
InvalidRun ==
    /\ ~(\E i \in 1..Len(argv) : argv[i] \in {"--version", "-v", "--help", "-h"})
    /\ Len(positionalArgs(argv)) >= 2
    /\ \/ ~ValidSubdomainArg(positionalArgs(argv)[1])
       \/ ~ValidPortArg(positionalArgs(argv)[2])
       \/ ~ConfigGives("PGROK_HOST")
       \/ ~ConfigGives("PGROK_DOMAIN")

\* C12 (as claimed): a run with an invalid argument or configuration prints one
\* error and exits non-zero at its first step, and never binds a listener nor
\* spawns the control-channel process.
C12_InvalidRunExitsEarly ==
    (InvalidRun /\ spc # "start") =>
        /\ spc = "exited"
        /\ exitStatus # <<>> /\ exitStatus[1] # 0
        /\ Len(printed) = 1
        /\ printed[1][1] = "stderr" /\ StartsWith(printed[1][2], "Error:")
        /\ bound = 0 /\ spawned = 0 /\ ~listening /\ proc = "none"

\* C13: at most one control-channel process is ever spawned; once it has exited
\* or been killed that remains so; and while the session runs the proxy listens.
C13_AtMostOneSpawn ==
    /\ spawned <= 1
    /\ (proc # "none") <=> (spawned = 1)
    /\ spc = "running" => (spawned = 1 /\ listening)
    /\ listening => spawned = 1

\* C13 witness: the process exited, the exit was handled, and afterwards the
\* still-running session's proxy answered a request
C13_Witness ==
    /\ spc = "running" /\ proc = "exited" /\ exitSeen
    /\ tunnelState.status = "error"
    /\ response["r1"] # <<>> /\ response["r1"][1].status = 200
    /\ spawned = 1 /\ listening

(***************************************************************************)
(* Claims about the statistics tracker                                     *)
(***************************************************************************)
\* C14: what get() reports as totalRequests is the number of recordRequest calls
\* made so far, in every state and at every get() call; the counter never
\* decreases, also when the window is pruned.
C14_TotalCountsCalls ==
    /\ [](get(prune(durations, now), now, inFlight, total).totalRequests = recorded)
    /\ [][/\ total' >= total
          /\ snap' # snap => snap'[1].totalRequests = recorded']_vars

\* C14 witness: three calls were made, pruning has emptied the window, and a
\* snapshot taken after that reports 3
C14_Witness ==
    /\ recorded = 3 /\ durations = <<>>
    /\ snap # <<>> /\ snap[1].totalRequests = 3 /\ snap[1].rate5m.num = 0

\* C15: the open-connection counter is never negative, nor above the number of
\* requests started, and no snapshot reports a negative count.
C15_OpenNeverNegative ==
    /\ inFlight >= 0
    /\ inFlight <= started
    /\ snap # <<>> => snap[1].openConnections >= 0

\* C15 witness: more completion calls than requests started, counter at 0
C15_Witness ==
    /\ started = 1 /\ completions = 3 /\ inFlight = 0
    /\ snap # <<>> /\ snap[1].openConnections = 0

\* the k-th smallest (k from 0) of the retained durations, counted with repeats
OrderStat(ds, k) ==
    CHOOSE v \in {ds[i].ms : i \in 1..Len(ds)} :
        /\ Cardinality({i \in 1..Len(ds) : ds[i].ms < v}) <= k
        /\ Cardinality({i \in 1..Len(ds) : ds[i].ms <= v}) > k

\* C16: p50 and p90 are the elements at index floor(n * 0.5) and floor(n * 0.9) of
\* the n retained durations in ascending order (reported to two decimals), 0 for an
\* empty window; both indexes are below n; 10, 20, 30, 40, 50 ms give 30 and 50.
C16_PercentileIndexing ==
    snap # <<>> =>
        LET n == Len(durations)
        IN  /\ n = 0 => (snap[1].p50Ms = 0 /\ snap[1].p90Ms = 0)
            /\ n >= 1 =>
                  /\ n \div 2 < n /\ (9 * n) \div 10 < n
                  /\ snap[1].p50Ms = Round2(OrderStat(durations, n \div 2))
                  /\ snap[1].p90Ms = Round2(OrderStat(durations, (9 * n) \div 10))
            /\ {durations[i].ms : i \in 1..n} = {10000, 20000, 30000, 40000, 50000} /\ n = 5
                  => (snap[1].p50Ms = 30000 /\ snap[1].p90Ms = 50000)

\* C16 witness: the five durations, recorded out of order, give 30 and 50
C16_Witness ==
    /\ snap # <<>>
    /\ [i \in 1..Len(durations) |-> durations[i].ms] = <<50000, 10000, 40000, 20000, 30000>>
    /\ snap[1].p50Ms = 30000 /\ snap[1].p90Ms = 50000

(***************************************************************************)
(* Claims about the checksum and the port derivation                       *)
(***************************************************************************)
IsUint32(x) == x[1] \in 0..65535 /\ x[2] \in 0..65535

\* C17: every value crc takes is within 0..2^32-1; the value returned is the
\* complement of the bit-serial reference register fed the bytes of the input and
\* then the bytes of its length, least significant first; the empty input gets no
\* length byte and gives 2^32-1.
C17_CksumMatchesReference ==
    /\ IsUint32(ckCrc)
    /\ ckCrc = WordOfBits(ckRef)
    /\ ckOut # <<>> =>
          /\ IsUint32(ckOut[1])
          /\ ckOut[1] = WordOfBits(RefNot(ckRef))
          /\ Len(ckIn) <= 63 => ckOut[1] = posixCksum(ckIn)
          /\ ckIn = "" => (ckRef = ZeroBits /\ ckOut[1] = <<65535, 65535>>)

\* C17 witness: 256 bytes, whose count takes two length bytes; the value is the
\* one cksum(1) prints for that input, 3916537103
C17_Witness ==
    /\ ckPc = "done" /\ Len(ckIn) = 256
    /\ ckOut = << <<59761, 40207>> >>

\* C18: for a valid subdomain every call of computeRemotePort gives 10000 plus the
\* reference checksum modulo 50000, a value in 10000..59999, the same on every call.
C18_PortFromChecksum ==
    \A i \in 1..Len(ckPorts) :
        /\ SubdomainPattern(ckIn)
        /\ ckPorts[i] = 10000 + BitsMod(RefNot(ckRef), 32, 50000)
        /\ ckPorts[i] >= 10000 /\ ckPorts[i] <= 59999
        /\ ckPorts[i] = ckPorts[1]

\* C18 witness: two calls for "myapp", whose checksum is 3057370603
C18_Witness ==
    /\ ckIn = "myapp" /\ ckOut = << <<46651, 50667>> >>
    /\ ckPorts = <<30603, 30603>>

(***************************************************************************)
(* Further claims about the tunnel state machine                           *)
(***************************************************************************)
\* C19: from every state a line beginning "Provisioning TLS certificate" gives
\* status=provisioning_tls and certStatus=pending, url and error as they were.
C19_ProvisioningFromAnyState ==
    (pOut # <<>> /\ StartsWith(pLine, "Provisioning TLS certificate")) =>
        /\ pOut[1].status = "provisioning_tls"
        /\ pOut[1].certStatus = "pending"
        /\ pOut[1].url = pState.url
        /\ pOut[1].error = pState.error

\* C19 witness: such a line applied to an error state that holds a url, an error
\* and a ready certificate
C19_Witness ==
    /\ pOut # <<>> /\ pLine = "Provisioning TLS certificate https://x.example.com"
    /\ pState.status = "error" /\ pState.certStatus = "ready"
    /\ pState.url # Null /\ pState.error # Null
    /\ pOut[1].url = pState.url

\* C20: from every state the line "TLS certificate ready." sets certStatus=ready
\* and a line beginning "Warning: TLS certificate not yet ready" sets
\* certStatus=warning; status, url and error are as they were.
C20_CertLinesKeepStatus ==
    /\ (pOut # <<>> /\ pLine = "TLS certificate ready.") =>
          /\ pOut[1].certStatus = "ready"
          /\ pOut[1].status = pState.status
          /\ pOut[1].url = pState.url
          /\ pOut[1].error = pState.error
    /\ (pOut # <<>> /\ StartsWith(pLine, "Warning: TLS certificate not yet ready")) =>
          /\ pOut[1].certStatus = "warning"
          /\ pOut[1].status = pState.status
          /\ pOut[1].url = pState.url
          /\ pOut[1].error = pState.error

\* C20 witness: the warning line, with text after it, applied to an online state
C20_Witness ==
    /\ pOut # <<>> /\ pLine = "Warning: TLS certificate not yet readyx"
    /\ pState.status = "online" /\ pState.url # Null /\ pState.certStatus = "ready"
    /\ pOut[1].certStatus = "warning" /\ pOut[1].status = "online"

\* C21: from every state a line beginning "Error:" gives status=error with the
\* whole line as the error, url and certStatus as they were; and an error state is
\* not terminal: a provisioning line or an active line applied to it changes the
\* status again.
C21_ErrorLineNotTerminal ==
    /\ (pOut # <<>> /\ StartsWith(pLine, "Error:")) =>
          /\ pOut[1].status = "error"
          /\ pOut[1].error = Some(pLine)
          /\ pOut[1].url = pState.url
          /\ pOut[1].certStatus = pState.certStatus
    /\ (pOut # <<>> /\ pState.status = "error") =>
          /\ StartsWith(pLine, "Provisioning TLS certificate")
                 => pOut[1].status = "provisioning_tls"
          /\ StartsWith(pLine, "pgrok tunnel active:") => pOut[1].status = "online"

\* C21 witness: an active line applied to an error state, which an "Error:" line
\* had produced, gives an online state that still holds the error text
C21_Witness ==
    /\ pOut # <<>> /\ pLine = "pgrok tunnel active: https://x.example.com"
    /\ pState = parseTunnelMessage("Error: earlier", [pState EXCEPT !.status = "online"])
    /\ pOut[1].status = "online" /\ pOut[1].error = Some("Error: earlier")

(***************************************************************************)
(* Further claims about the WebSocket relay                                *)
(***************************************************************************)
\* one of the three finalizing events of connection c has been handled: the
\* downstream close, the upstream error, the upstream close
Finalized(c) ==
    \/ downPeerClose[c] # <<>>
    \/ upRS[c] \in {"FAILED", "CLOSED"}

\* C22: the map holds an entry for a socket exactly from its open handler until
\* the first of downstream close, upstream close and upstream error is handled.
C22_TrackedUntilFinalized ==
    \A c \in Conns : (c \in tracked) <=> (upReq[c] # <<>> /\ ~Finalized(c))

\* C22 witness: one connection finalized by an upstream error and then its close
\* event, the other by the downstream close while upstream was still connecting;
\* neither has an entry
C22_Witness ==
    /\ upReq["c1"] # <<>> /\ upRS["c1"] = "CLOSED" /\ downClose["c1"] = <<1011, "upstream error">>
    /\ upReq["c2"] # <<>> /\ downPeerClose["c2"] # <<>> /\ upCloseArgs["c2"] # <<>>
    /\ tracked = {}

(***************************************************************************)
(* Further claims about the statistics tracker                             *)
(***************************************************************************)
\* the positions of the entries of h that are newer than w milliseconds before t
NewerThan(h, t, w) == {i \in 1..Len(h) : h[i].ts > t - w}

\* a step that is a call of get(): no time passes and no other call is counted
GetStep == UNCHANGED <<now, recorded, started, completions>>

\* C26: right after every recordRequest and every get(), the window holds exactly
\* the entries recorded so far that are newer than 5 minutes before that moment,
\* in the order recorded: none older is left, none newer is gone, however many.
C26_WindowIsLastFiveMinutes ==
    [][(recorded' # recorded \/ GetStep) =>
          /\ Len(durations') = Cardinality(NewerThan(history', now', 300000))
          /\ durations' = SubSeq(history', Len(history') - Len(durations') + 1,
                                 Len(history'))
          /\ \A i \in 1..Len(durations') : durations'[i].ts > now' - 300000]_vars

\* C26 witness: three entries recorded, the first exactly 5 minutes old and gone,
\* the other two, 4 minutes old, still there when get() is called
C26_Witness ==
    /\ Len(history) = 3 /\ history[1].ts = now - 300000 /\ history[2].ts = now - 240000
    /\ durations = SubSeq(history, 2, 3)
    /\ snap # <<>> /\ snap[1].rate5m.num = 2

\* C27: get() reports rate1m as the number of retained entries newer than 60 s
\* over 60 and rate5m as the number of all retained entries over 300; the first
\* count never exceeds the second, and both are 0 once nothing has been recorded
\* for 5 minutes.
C27_RatesFromWindow ==
    [][(GetStep /\ snap' # <<>>) =>
          /\ snap'[1].rate1m =
                 [num |-> Cardinality(NewerThan(durations', now, 60000)), den |-> 60]
          /\ snap'[1].rate5m = [num |-> Len(durations'), den |-> 300]
          /\ snap'[1].rate1m.num <= snap'[1].rate5m.num
          /\ NewerThan(history, now, 300000) = {}
                 => (snap'[1].rate1m.num = 0 /\ snap'[1].rate5m.num = 0)]_vars

\* C27 witness: a snapshot that counts one entry in the last minute and three in
\* the last five
C27_Witness ==
    /\ snap # <<>> /\ snap[1].rate1m.num = 1 /\ snap[1].rate5m.num = 3
    /\ Len(durations) = 3 /\ durations[1].ts <= now - 60000 /\ durations[3].ts = now

(***************************************************************************)
(* Further claims about startup and shutdown                               *)
(***************************************************************************)
\* C23: the teardown steps are taken in the order timer, kill, proxy, display,
\* none before an earlier one and all of them inside cleanup(), which ends with
\* the process exit; a shutdown that exits with status 0 has taken all four; and
\* from the moment the timer is stopped no snapshot is published any more.
C23_TeardownInOrder ==
    /\ [](teardown # <<>> =>
             /\ teardown = SubSeq(TeardownSteps, 1, Len(teardown))
             /\ ~timerOn
             /\ spc = "exited" /\ exitStatus # <<>>)
    /\ []((teardown # <<>> /\ exitStatus = <<0>>) =>
             /\ teardown = TeardownSteps
             /\ proc # "running" /\ ~listening /\ ~displayUp)
    /\ [][teardown' # <<>> => connPanel' = connPanel]_vars

\* C23 witness: a session that had published snapshots and whose process was
\* still running is shut down with all four steps taken
C23_Witness ==
    /\ teardown = TeardownSteps /\ exitStatus = <<0>>
    /\ proc = "killed" /\ ~listening /\ ~displayUp /\ ~timerOn
    /\ connPanel # <<>> /\ connPanel[1].totalRequests = 1

\* computeRemotePort of the subdomains the drawn command lines are accepted with
RemotePorts == [s \in {"myapp", Rep("a", 63)} |-> computeRemotePort(s)]

\* the positions of argument a in the argument vector
ArgPositions(a) == {i \in 1..Len(sshArgv) : sshArgv[i] = a}

OpenRequests == Cardinality({r \in Reqs : hpc[r] = "forwarding"})

\* C25 (as claimed): every snapshot the session publishes reports as open count
\* the number of proxied requests started and not yet completed.
C25_OpenCountIsInFlight ==
    [][connPanel' # connPanel => connPanel'[1].openConnections = OpenRequests']_vars

\* C28 (as claimed): once the port has been chosen the proxy listens, on the
\* preferred port when that could be bound at the probe and on the port the
\* operating system handed out otherwise, whatever happens to the ports between
\* the probe and the proxy's own bind.
C28_ListensOnChosenPort ==
    probe # <<>> =>
        LET preferred == session[1].localPort + 10000
        IN  /\ listenPort = IF probe[1].free /\ preferred <= 65535
                            THEN preferred ELSE probe[1].ephemeral
            /\ listening \/ teardown # <<>>

(***************************************************************************)
(* Further claims about the proxy's HTTP forwarding                        *)
(***************************************************************************)
\* the caller's address as the proxy knows it: the X-Real-IP the relay's web
\* server sent along, or the loopback address the tunnel connects from
CallerAddress(req) ==
    IF "x-real-ip" \in DOMAIN req.headers /\ req.headers["x-real-ip"] # ""
    THEN req.headers["x-real-ip"] ELSE "127.0.0.1"

\* C30: the headers handed to fetch() have Host localhost:<target port>,
\* X-Forwarded-For the inbound value then ", " then the caller's address, or the
\* caller's address alone when there was none, X-Forwarded-Proto the inbound value
\* or https, X-Forwarded-Host the inbound Host, X-Forwarded-Port 443, and no
\* Accept-Encoding.
C30_ForwardedHeaders ==
    \A r \in Reqs :
        forwarded[r] # <<>> =>
            LET in == inbound[r][1].headers
                out == forwarded[r][1]
            IN  /\ {"host", "x-forwarded-for", "x-forwarded-proto", "x-forwarded-host",
                     "x-forwarded-port"} \subseteq DOMAIN out
                /\ out["host"] = "localhost:3000"
                /\ out["x-forwarded-for"] =
                       IF "x-forwarded-for" \in DOMAIN in
                       THEN in["x-forwarded-for"] \o ", " \o CallerAddress(inbound[r][1])
                       ELSE CallerAddress(inbound[r][1])
                /\ out["x-forwarded-proto"] =
                       IF "x-forwarded-proto" \in DOMAIN in
                       THEN in["x-forwarded-proto"] ELSE "https"
                /\ out["x-forwarded-host"] = in["host"]
                /\ out["x-forwarded-port"] = "443"
                /\ "accept-encoding" \notin DOMAIN out

\* C30 witness: one request forwarded with a prior X-Forwarded-For, which its
\* Connection header even listed, and one that came with Accept-Encoding and with
\* neither X-Forwarded-For nor X-Forwarded-Proto
C30_Witness ==
    /\ forwarded["r1"] # <<>> /\ forwarded["r2"] # <<>>
    /\ forwarded["r1"][1]["x-forwarded-for"] = "203.0.113.7, 198.51.100.2"
    /\ "accept-encoding" \in DOMAIN inbound["r2"][1].headers
    /\ forwarded["r2"][1]["x-forwarded-for"] = "127.0.0.1"
    /\ forwarded["r2"][1]["x-forwarded-proto"] = "https"


(***************************************************************************)
(* readStream: the lines of a stream                                       *)
(***************************************************************************)
\* the positions of s where a terminator ends: a "\n", or a "\r" with no "\n"
\* right after it
TermEnds(s) ==
    {i \in 1..Len(s) :
        \/ SubSeq(s, i, i) = "\n"
        \/ SubSeq(s, i, i) = "\r" /\ ~(i < Len(s) /\ SubSeq(s, i + 1, i + 1) = "\n")}
LastEndBefore(s, i) ==
    LET before == {e \in TermEnds(s) : e < i}
    IN  IF before = {} THEN 0 ELSE CHOOSE e \in before : \A f \in before : f <= e
\* the line that the terminator ending at e closes, without the terminator
LineEndingAt(s, e) ==
    LET from == LastEndBefore(s, e) + 1
        crlf == e > from /\ SubSeq(s, e - 1, e) = "\r\n"
    IN  SubSeq(s, from, IF crlf THEN e - 2 ELSE e - 1)
\* the terminated lines of s in stream order, and what follows the last terminator
CompleteLines(s) ==
    LET n == Cardinality(TermEnds(s))
        nth(k) == CHOOSE e \in TermEnds(s) : Cardinality({f \in TermEnds(s) : f <= e}) = k
    IN  [k \in 1..n |-> LineEndingAt(s, nth(k))]
TrailingPart(s) == SubSeq(s, LastEndBefore(s, Len(s) + 1) + 1, Len(s))
TrimEach(lines) == [k \in 1..Len(lines) |-> Trim(lines[k])]
NotBlank(lines) == LET full(l) == l # "" IN SelectSeq(TrimEach(lines), full)

\* C29 as stated: once the stream has ended, the handler has received every
\* terminated line of the stream, once each and in stream order, followed by
\* what came after the last terminator when that is not empty (lines compared
\* without their surrounding white space).
C29_EveryLineDelivered ==
    rsPc = "done" =>
        rsOut = TrimEach(CompleteLines(rsRead)
                         \o (IF TrailingPart(rsRead) # ""
                             THEN <<TrailingPart(rsRead)>> ELSE <<>>))

\* C29, amended: while the stream is read the buffer holds exactly what came
\* after the last terminator read so far, and the handler has received, once
\* each and in stream order, the terminated lines read so far that are not
\* blank, each without its surrounding white space; once the stream has ended
\* it has also received what came after the last terminator, trimmed, when
\* that is not blank.  Blank lines are never handed over, and after a failed
\* read nothing more is.
C29_LinesDelivered ==
    /\ rsPc = "reading" => rsBuffer = TrailingPart(rsRead)
    /\ rsOut = NotBlank(CompleteLines(rsRead))
               \o (IF rsPc = "done" THEN NotBlank(<<TrailingPart(rsRead)>>) ELSE <<>>)
C29_Witness ==
    /\ rsPc = "done" /\ rsRead = "a\r\nb" /\ rsRest = ""
    /\ rsBuffer = "b" /\ rsOut = <<"a", "b">>

(***************************************************************************)
(* Claims about loadConfig                                                 *)
(***************************************************************************)
\* line l of the file assigns key: it is no comment and has key before its first "="
Assigns(l, key) ==
    /\ ~StartsWith(Trim(l), "#")
    /\ IndexOf(Trim(l), "=") # 0
    /\ Trim(SubSeq(Trim(l), 1, IndexOf(Trim(l), "=") - 1)) = key
AssignedValue(l) == Trim(SubSeq(Trim(l), IndexOf(Trim(l), "=") + 1, Len(Trim(l))))
\* what the file gives for key: the value on the last line assigning it, if any
FileGives(key) ==
    LET at == {i \in 1..Len(cfgLines) : Assigns(cfgLines[i], key)}
    IN  IF cfgIn = Null \/ at = {} THEN Null
        ELSE Some(AssignedValue(cfgLines[CHOOSE i \in at : \A j \in at : j <= i]))
Given(key) == FileGives(key) # Null /\ FileGives(key)[1] # ""
\* a key path with its leading tilde replaced by the home directory
TildeExpanded(path) ==
    IF Len(path) > 0 /\ SubSeq(path, 1, 1) = "~"
    THEN "/home/u" \o SubSeq(path, 2, Len(path)) ELSE path

\* C31: loadConfig throws exactly when the file is missing or gives no non-empty
\* PGROK_HOST or PGROK_DOMAIN (comment lines, blank lines and lines without "="
\* give nothing); otherwise it returns that host and domain, both non-empty, the
\* user the file gives or "pgrok", and the tilde-expanded key path exactly when
\* the file gives one and that path names an existing file.
C31_ConfigValidated ==
    cfgOut # <<>> =>
        LET r == cfgOut[1]
        IN  /\ r.threw <=> (cfgIn = Null \/ ~Given("PGROK_HOST") \/ ~Given("PGROK_DOMAIN"))
            /\ ~r.threw =>
                  /\ r.config.host # "" /\ r.config.host = FileGives("PGROK_HOST")[1]
                  /\ r.config.domain # "" /\ r.config.domain = FileGives("PGROK_DOMAIN")[1]
                  /\ r.config.user = IF Given("PGROK_USER")
                                     THEN FileGives("PGROK_USER")[1] ELSE "pgrok"
                  /\ r.config.sshKey # Null <=> (Given("PGROK_SSH_KEY") /\ cfgKeyExists)
                  /\ r.config.sshKey # Null =>
                        r.config.sshKey[1] = TildeExpanded(FileGives("PGROK_SSH_KEY")[1])
\* C31 witness: a file with host, domain and a tilde key path whose file exists
C31_Witness ==
    /\ cfgOut # <<>> /\ ~cfgOut[1].threw /\ cfgKeyExists
    /\ cfgOut[1].config.sshKey = <<"/home/u/.ssh/id_ed25519">>
    /\ cfgOut[1].config.user = "pgrok"
    /\ cfgOut[1].config.host = "203.0.113.5" /\ cfgOut[1].config.domain = "example.com"

(***************************************************************************)
(* Claims about what reaches the proxy and the remote command              *)
(***************************************************************************)
NameChars == "abcdefghijklmnopqrstuvwxyz0123456789-"
OnlyNameChars(s) == \A i \in 1..Len(s) : IndexOf(NameChars, SubSeq(s, i, i)) # 0
RemoteCommandPrefix == "PYTHONUNBUFFERED=1 /usr/local/bin/pgrok-tunnel "

\* C32: once the proxy has been started or the control-channel process spawned,
\* the session's subdomain is 1 to 63 lowercase letters, digits and hyphens with
\* no hyphen at either end, its local port is in 1..65535, and the remote command
\* is the fixed prefix followed by that subdomain, a space and digits only.
C32_ValidatedBeforeStart ==
    (bound > 0 \/ listening \/ spawned > 0 \/ sshArgv # <<>>) =>
        /\ session # <<>>
        /\ Len(session[1].subdomain) \in 1..63
        /\ OnlyNameChars(session[1].subdomain)
        /\ SubSeq(session[1].subdomain, 1, 1) # "-"
        /\ SubSeq(session[1].subdomain, Len(session[1].subdomain),
                  Len(session[1].subdomain)) # "-"
        /\ session[1].localPort \in 1..65535
        /\ sshArgv # <<>> =>
              LET cmd == sshArgv[Len(sshArgv)]
                  rest == SubSeq(cmd, Len(RemoteCommandPrefix) + 1, Len(cmd))
                  sp == IndexOf(rest, " ")
              IN  /\ StartsWith(cmd, RemoteCommandPrefix)
                  /\ sp # 0
                  /\ SubSeq(rest, 1, sp - 1) = session[1].subdomain
                  /\ Len(rest) > sp
                  /\ \A i \in (sp + 1)..Len(rest) : IsDigit(SubSeq(rest, i, i))
\* C32 witness: a session given "MyApp" is running as myapp, proxy and process up
C32_Witness ==
    /\ listening /\ spawned = 1 /\ sshArgv # <<>>
    /\ argv[1] = "MyApp" /\ session[1].subdomain = "myapp" /\ session[1].localPort = 8080

(***************************************************************************)
(* Claims about the request log                                            *)
(***************************************************************************)
\* how many of the n requests added so far the log still shows
Shown(n) == IF n > 500 THEN 500 ELSE n

\* C33: after any number of addRequest calls the log holds at most 500 lines, and
\* they are the lines of the most recently added requests, oldest first: line k
\* of the log is the request added as number (n - shown + k), under the id made
\* from that number.
C33_LogKeepsNewest ==
    LET n == Len(reqAdded)
    IN  /\ requestCounter = n
        /\ Len(reqLog) <= 500
        /\ Len(reqLog) = Shown(n)
        /\ \A k \in 1..Len(reqLog) :
               /\ reqLog[k].id = n - Shown(n) + k
               /\ reqLog[k].req = reqAdded[n - Shown(n) + k]
\* C33 witness: three requests past the cap, the first three lines gone
C33_Witness ==
    /\ Len(reqAdded) = 503 /\ Len(reqLog) = 500
    /\ reqLog[1].id = 4 /\ reqLog[500].id = 503

(***************************************************************************)
(* readStream: the chunking does not matter                                *)
(***************************************************************************)
\* what readStream hands over when all of s arrives in one read: the pieces
\* before the last while the stream is open, the last piece too once it has ended
InOneRead(s, ended) ==
    LET lines == SplitLines(s, "")
    IN  Handed(SubSeq(lines, 1, Len(lines) - 1))
        \o (IF ended THEN Handed(<<lines[Len(lines)]>>) ELSE <<>>)

\* C34: however the bytes read so far were divided into reads, the lines handed
\* over are those that the same bytes give when they arrive in a single read, in
\* the same order, both while the stream is open and once it has ended.
C34_ChunkingIrrelevant == rsOut = InOneRead(rsRead, rsPc = "done")
\* C34 witness: "ab\r\n" read as "a", "b\r", "\n": a cut inside the line and a cut
\* between \r and \n, and one line handed over
C34_Witness ==
    /\ rsPc = "done" /\ rsRead = "ab\r\n" /\ rsCuts = <<1, 2, 1>>
    /\ rsOut = <<"ab">>

(***************************************************************************)
(* TunnelState: url and error                                              *)
(***************************************************************************)
\* C35: in every state of the orchestrator an online tunnel has a URL and a
\* tunnel in error has an error text, in the state held and in the state last
\* published; and no line and no exit takes a URL or an error text away once
\* there is one.
C35_UrlAndErrorKept ==
    /\ [](/\ tunnelState.status = "online" => tunnelState.url # Null
          /\ tunnelState.status = "error" => tunnelState.error # Null
          /\ panel.status = "online" => panel.url # Null
          /\ panel.status = "error" => panel.error # Null)
    /\ [][/\ tunnelState.url # Null => tunnelState'.url # Null
          /\ tunnelState.error # Null => tunnelState'.error # Null]_vars
\* C35 witness: the tunnel was online, an Error line came, then the exit was
\* handled: the URL is still there beside the exit's error text
C35_Witness ==
    /\ exitSeen /\ tunnelState.status = "error"
    /\ tunnelState.url = <<"https://x.example.com">>
    /\ tunnelState.error = <<"SSH connection lost (exit code 255)">>
    /\ \E i \in 1..Len(delivered) : StartsWith(delivered[i], "Error:")

(***************************************************************************)
(* spawnTunnel and onLine: no line before the subscription                 *)
(***************************************************************************)
\* C36: from the spawning of the process on, the orchestrator's callback is
\* registered before any line is handed over: no line is ever handed to an empty
\* callback list, and every line the process has written is either still in a
\* pipe or has been passed to the callback, which ran once for it.
C36_NoLineBeforeSubscription ==
    /\ unheard = <<>>
    /\ proc # "none" => callbacks = 1
    /\ Len(delivered) + Len(outPipe) + Len(errPipe) = written
    /\ Len(delivered) = Cardinality({i \in 1..Len(events) : events[i][1] = "line"})
\* C36 witness: a run started from the command line whose process wrote on both
\* pipes and exited; all three lines reached the callback
C36_Witness ==
    /\ spc = "running" /\ probe # <<>> /\ callbacks = 1
    /\ written = 3 /\ Len(delivered) = 3 /\ proc = "exited"
    /\ delivered[1] = "Provisioning TLS certificate for x.example.com..."
    /\ delivered[3] = "pgrok tunnel active: https://x.example.com"

(***************************************************************************)
(* The relay's queue after the upstream has opened                         *)
(***************************************************************************)
\* C37 (as claimed): once the upstream 'open' listener has run for a connection,
\* its queue is empty for as long as the relay state exists, and a downstream
\* message that arrives then goes to the upstream and not into the queue.
C37_QueueEmptyAfterOpen ==
    /\ [](\A c \in Conns : (c \in tracked /\ ready[c]) => queue[c] = <<>>)
    /\ [][\A c \in Conns :
            (c \in tracked /\ ready[c] /\ arrived'[c] = arrived[c] + 1) =>
                /\ Len(upSent'[c]) = Len(upSent[c]) + 1
                /\ queue'[c] = queue[c]]_vars

(***************************************************************************)
(* Records, the tracker's total and the request log                        *)
(***************************************************************************)
\* C38: in a running session the total of the snapshot on the panel, the
\* tracker's total, the number of records the proxy has emitted and the number
\* of requests ever added to the log are one number; record number i is entry
\* number i of the tracker's history and addition number i of the log.
C38_EveryRecordCountedOnce ==
    /\ total = Len(records)
    /\ recorded = Len(records) /\ Len(history) = Len(records)
    /\ Len(reqAdded) = Len(records) /\ requestCounter = Len(records)
    /\ \A i \in 1..Len(records) : reqAdded[i].durationMs = history[i].ms
    /\ records # <<>> =>
          connPanel # <<>> /\ connPanel[1].totalRequests = Len(records)
\* C38 witness: two requests gave three records, one response having been
\* recorded with its own status and again as 502; the panel shows 3
C38_Witness ==
    /\ Len(records) = 3 /\ \A r \in Reqs : hpc[r] = "done"
    /\ records[1].statusCode = 200 /\ records[2].statusCode = 502
    /\ records[1].req = records[2].req
    /\ connPanel # <<>> /\ connPanel[1].totalRequests = 3 /\ Len(reqLog) = 3
====
